---- MODULE Spec2Model ----
(***************************************************************************)
(* State-machine model of the POS system's stock ledger and sale flow.     *)
(*                                                                         *)
(* The inventory database (products, store_product_prices, stock_batches)  *)
(* and the sales database (sales, sale_items, sale_batch_allocations) are  *)
(* the variables.  A sale terminal is a session that walks through         *)
(* make_sale one committed transaction at a time, so that the terminal     *)
(* and the stock-keeping console interleave as they do on the databases.   *)
(* Money is integral; the weighted expected margin is an exact fraction    *)
(* <<numerator, denominator>>.                                             *)
(***************************************************************************)
EXTENDS Integers, Sequences, FiniteSets, TLC

\* ------------------------------------------------------------------ bounds
MaxBatches == 2
MaxSales == 1
MaxCart == 2
MaxTime == 1
MaxUpdates == 1

\* ------------------------------------------------------- input domains
Products == {1}
Sessions == {1}
QuantityInputs == {0, 5}
SaleQuantityInputs == {2, 3, 8}
BuyingPriceInputs == {100}
ShippingCostInputs == {0, 10}
UpdateShippingCostInputs == {0}
HandlingCostInputs == {0}
RetailPriceInputs == {150}
WholesalePriceInputs == {120}
WholesaleThresholdInputs == {5}

VARIABLES products, prices, batches, sales, sale_items, allocations,
          sess, started, updates, now, call

vars == <<products, prices, batches, sales, sale_items, allocations,
          sess, started, updates, now, call>>

inventory == <<products, prices, batches>>
salesdb == <<sales, sale_items, allocations>>

\* ------------------------------------------------------------ arithmetic
Min(a, b) == IF a <= b THEN a ELSE b

Abs(a) == IF a < 0 THEN 0 - a ELSE a

RECURSIVE GCD(_, _)
GCD(a, b) == IF b = 0 THEN a ELSE GCD(b, a % b)

\* the fraction n/d in lowest terms, d > 0
Rat(n, d) == LET g == GCD(Abs(n), d) IN <<n \div g, d \div g>>

RatTimes(r, k) == Rat(r[1] * k, r[2])

\* ---------------------------------------------------------------- schema
\* stock_batches.landed_cost is a generated column
landed_cost(b) == b.buying_price + b.shipping_cost + b.handling_cost

\* column defaults of stock_batches
DefaultIsActive == TRUE
DefaultActualMargin == 0
DefaultTotalActualProfit == 0

NoProduct == [present |-> FALSE, stock_quantity |-> 0]
NoPrice == [present |-> FALSE, retail_price |-> 0, wholesale_price |-> 0,
            wholesale_threshold |-> 0]

\* ------------------------------------------------- CostCalculationService
RECURSIVE SoldQuantity(_, _, _)
SoldQuantity(items, product_id, wholesale) ==
    IF items = <<>> THEN 0
    ELSE (IF Head(items).product_id = product_id
             /\ Head(items).is_wholesale = wholesale
          THEN Head(items).quantity ELSE 0)
         + SoldQuantity(Tail(items), product_id, wholesale)

\* <<retail quantity, wholesale quantity>> standing for the two ratios;
\* <<7, 3>> is the default 0.7 / 0.3
get_sales_stats(items, product_id) ==
    LET retail_qty == SoldQuantity(items, product_id, FALSE)
        wholesale_qty == SoldQuantity(items, product_id, TRUE)
    IN IF product_id = 0 \/ retail_qty + wholesale_qty = 0
       THEN <<7, 3>>
       ELSE <<retail_qty, wholesale_qty>>

\* (the retail margin alone, against which the weighting is tested)
RetailMarginOnly(items, retail_price, wholesale_price, landed, product_id) ==
    Rat(retail_price - landed, 1)

calculate_expected_margin(items, retail_price, wholesale_price, landed, product_id) ==
    LET ratios == get_sales_stats(items, product_id)
        retail_profit == retail_price - landed
        wholesale_profit == wholesale_price - landed
    IN Rat(retail_profit * ratios[1] + wholesale_profit * ratios[2],
           ratios[1] + ratios[2])

\* ----------------------------------------------------------- FIFO ledger
\* (an ordering by id alone, against which the FIFO order is tested)
BeforeById(bs, i, j) == i < j

Before(bs, i, j) ==
    \/ bs[i].received_date < bs[j].received_date
    \/ bs[i].received_date = bs[j].received_date /\ i < j

\* WHERE product_id = ? AND is_active = 1 AND quantity > 0
Eligible(bs, product_id) ==
    {i \in 1..Len(bs) : /\ bs[i].product_id = product_id
                        /\ bs[i].is_active
                        /\ bs[i].quantity > 0}

\* ORDER BY received_date ASC, id ASC
RECURSIVE OrderBatches(_, _)
OrderBatches(bs, S) ==
    IF S = {} THEN <<>>
    ELSE LET first == CHOOSE i \in S : \A j \in S \ {i} : Before(bs, i, j)
         IN <<first>> \o OrderBatches(bs, S \ {first})

\* the loop over the ordered rows
RECURSIVE TakeBatches(_, _, _)
TakeBatches(bs, order, remaining_quantity) ==
    IF order = <<>> \/ remaining_quantity <= 0 THEN <<>>
    ELSE LET id == Head(order)
             batch_quantity == Min(bs[id].quantity, remaining_quantity)
         IN <<[batch_id |-> id,
               quantity_to_deduct |-> batch_quantity,
               current_quantity |-> bs[id].quantity,
               landed_cost |-> landed_cost(bs[id])]>>
            \o TakeBatches(bs, Tail(order), remaining_quantity - batch_quantity)

RECURSIVE SelectedQuantity(_)
SelectedQuantity(sel) ==
    IF sel = <<>> THEN 0
    ELSE Head(sel).quantity_to_deduct + SelectedQuantity(Tail(sel))

\* the caller tests the result with "not", so None is the empty selection
None == <<>>

\* (a selection that hands back whatever the loop collected, against which
\* the all-or-nothing result is tested)
PartialSelection(bs, product_id, quantity_needed) ==
    TakeBatches(bs, OrderBatches(bs, Eligible(bs, product_id)), quantity_needed)

get_stock_batches_for_sale(bs, product_id, quantity_needed) ==
    LET order == OrderBatches(bs, Eligible(bs, product_id))
        sel == TakeBatches(bs, order, quantity_needed)
    IN IF order = <<>> THEN None
       ELSE IF quantity_needed - SelectedQuantity(sel) > 0 THEN None
       ELSE sel

\* (a deduction that leaves is_active alone, against which the effect of
\* the deduction is tested)
RECURSIVE DeductWithoutDeactivating(_, _, _)
DeductWithoutDeactivating(bs, batches_to_update, sale_price_per_unit) ==
    IF batches_to_update = <<>> THEN bs
    ELSE LET batch == Head(batches_to_update)
             margin == sale_price_per_unit - batch.landed_cost
             row == [bs[batch.batch_id] EXCEPT
                       !.quantity = batch.current_quantity - batch.quantity_to_deduct,
                       !.actual_margin = margin,
                       !.total_actual_profit = @ + margin * batch.quantity_to_deduct]
         IN DeductWithoutDeactivating(
                [bs EXCEPT ![batch.batch_id] = row],
                Tail(batches_to_update), sale_price_per_unit)

RECURSIVE update_stock_batches_after_sale(_, _, _)
update_stock_batches_after_sale(bs, batches_to_update, sale_price_per_unit) ==
    IF batches_to_update = <<>> THEN bs
    ELSE LET batch == Head(batches_to_update)
             actual_margin_per_unit == sale_price_per_unit - batch.landed_cost
             batch_actual_profit == actual_margin_per_unit * batch.quantity_to_deduct
             new_quantity == batch.current_quantity - batch.quantity_to_deduct
             row == [bs[batch.batch_id] EXCEPT
                       !.quantity = new_quantity,
                       !.is_active = new_quantity > 0,
                       !.actual_margin = actual_margin_per_unit,
                       !.total_actual_profit = @ + batch_actual_profit]
         IN update_stock_batches_after_sale(
                [bs EXCEPT ![batch.batch_id] = row],
                Tail(batches_to_update), sale_price_per_unit)

RECURSIVE total_actual_profit(_, _)
total_actual_profit(batches_to_update, sale_price_per_unit) ==
    IF batches_to_update = <<>> THEN 0
    ELSE (sale_price_per_unit - Head(batches_to_update).landed_cost)
            * Head(batches_to_update).quantity_to_deduct
         + total_actual_profit(Tail(batches_to_update), sale_price_per_unit)

\* ------------------------------------------------------------------ Init
NoRow == [id |-> 0, stock_quantity |-> 0, retail_price |-> 0,
          wholesale_price |-> 0, wholesale_threshold |-> 0]

\* notice is the last message the cart loop printed about the batches
IdleSession == [pc |-> "idle", cart |-> <<>>, product |-> NoRow,
                sale_id |-> 0, idx |-> 0, profit |-> 0, notice |-> ""]

\* call holds the arguments and the result of a service function that is
\* exercised on its own; the stock ledger and the sale flow leave it alone
NoCall == [op |-> "none"]

Init ==
    /\ products = [p \in Products |-> NoProduct]
    /\ prices = [p \in Products |-> NoPrice]
    /\ batches = <<>>
    /\ sales = <<>>
    /\ sale_items = <<>>
    /\ allocations = <<>>
    /\ sess = [s \in Sessions |-> IdleSession]
    /\ started = 0
    /\ updates = 0
    /\ now = 0
    /\ call = NoCall

\* --------------------------------------------------------------- clock
\* an operation that reads the clock reads the previous reading again
\* (same second) or a later one; the first receipt is the clock's origin
ClockReadings ==
    IF batches = <<>> THEN {now} ELSE {t \in {now, now + 1} : t <= MaxTime}

\* ------------------------------------------------------- ProductService
\* INSERT INTO stock_batches: is_active, actual_margin and
\* total_actual_profit take their column defaults
create_stock_batch(product_id, expected_margin, buying_price, shipping_cost, handling_cost, quantity, reading) ==
    [product_id |-> product_id,
     batch_number |-> <<"BATCH", reading>>,
     quantity |-> quantity,
     original_quantity |-> quantity,
     buying_price |-> buying_price,
     shipping_cost |-> shipping_cost,
     handling_cost |-> handling_cost,
     received_date |-> reading,
     is_active |-> DefaultIsActive,
     expected_margin |-> expected_margin,
     total_expected_profit |-> RatTimes(expected_margin, quantity),
     actual_margin |-> DefaultActualMargin,
     total_actual_profit |-> DefaultTotalActualProfit]

\* sale_items.cost_price is NULL until calculate_sale_profit fills it in;
\* it is an average, so a fraction, and <<0, 0>> is the NULL
NULL == <<0, 0>>

\* ------------------------------------------------ manual data entry
\* insert_single_product: a product that does not exist yet gets its row,
\* its first batch and its prices
InsertSingleProduct(product_id, stock_quantity, buying_price, shipping_cost) ==
    /\ ~products[product_id].present
    /\ \A p \in Products : p < product_id => products[p].present
    /\ Len(batches) < MaxBatches
    /\ \E handling_cost \in HandlingCostInputs,
          retail_price \in RetailPriceInputs,
          wholesale_price \in WholesalePriceInputs,
          wholesale_threshold \in WholesaleThresholdInputs,
          reading \in ClockReadings :
         LET expected_margin ==
                 calculate_expected_margin(sale_items, retail_price, wholesale_price,
                     buying_price + shipping_cost + handling_cost, 0)
         IN /\ now' = reading
            /\ products' = [products EXCEPT ![product_id] =
                               [present |-> TRUE, stock_quantity |-> stock_quantity]]
            /\ batches' = Append(batches,
                               create_stock_batch(product_id, expected_margin,
                                   buying_price, shipping_cost, handling_cost,
                                   stock_quantity, reading))
            /\ prices' = [prices EXCEPT ![product_id] =
                               [present |-> TRUE,
                                retail_price |-> retail_price,
                                wholesale_price |-> wholesale_price,
                                wholesale_threshold |-> wholesale_threshold]]
    /\ UNCHANGED <<salesdb, sess, started, call, updates>>

PriceRow(retail_price, wholesale_price, wholesale_threshold) ==
    [present |-> TRUE,
     retail_price |-> retail_price,
     wholesale_price |-> wholesale_price,
     wholesale_threshold |-> wholesale_threshold]

\* add_single_unit_batch: a further receipt for an existing product
AddSingleUnitBatch(product_id, new_quantity, buying_price, shipping_cost) ==
    /\ products[product_id].present
    /\ Len(batches) < MaxBatches
    /\ \E handling_cost \in HandlingCostInputs,
          retail_price \in RetailPriceInputs,
          wholesale_price \in WholesalePriceInputs,
          wholesale_threshold \in WholesaleThresholdInputs,
          reading \in ClockReadings :
         LET current_stock == products[product_id].stock_quantity
             expected_margin ==
                 calculate_expected_margin(sale_items, retail_price, wholesale_price,
                     buying_price + shipping_cost + handling_cost, product_id)
         IN /\ now' = reading
            /\ batches' = Append(batches,
                               create_stock_batch(product_id, expected_margin,
                                   buying_price, shipping_cost, handling_cost,
                                   new_quantity, reading))
            /\ products' = [products EXCEPT ![product_id].stock_quantity =
                               current_stock + new_quantity]
            /\ prices' = [prices EXCEPT ![product_id] =
                               PriceRow(retail_price, wholesale_price,
                                        wholesale_threshold)]
    /\ UNCHANGED <<salesdb, sess, started, call, updates>>

\* the batches the update menus list: WHERE product_id = ? AND is_active = 1
ActiveBatches(bs, product_id) ==
    {i \in 1..Len(bs) : bs[i].product_id = product_id /\ bs[i].is_active}

RECURSIVE TotalQuantity(_, _)
TotalQuantity(bs, S) ==
    IF S = {} THEN 0
    ELSE LET i == CHOOSE i \in S : TRUE
         IN bs[i].quantity + TotalQuantity(bs, S \ {i})

\* update_basic_product_info: the quantity, buying price and prices of one
\* active batch are keyed in again
UpdateBasicProductInfo(batch_id, new_batch_quantity, new_batch_buying_price) ==
    /\ updates < MaxUpdates
    /\ batch_id \in 1..Len(batches)
    /\ batches[batch_id].is_active
    /\ \E new_retail_price \in RetailPriceInputs,
          new_wholesale_price \in WholesalePriceInputs,
          new_wholesale_threshold \in WholesaleThresholdInputs :
         LET product_id == batches[batch_id].product_id
             expected_margin ==
                 calculate_expected_margin(sale_items, new_retail_price,
                     new_wholesale_price, new_batch_buying_price, product_id)
             total_stock_other_batches ==
                 TotalQuantity(batches, ActiveBatches(batches, product_id) \ {batch_id})
         IN /\ batches' = [batches EXCEPT ![batch_id] =
                   [@ EXCEPT !.quantity = new_batch_quantity,
                             !.buying_price = new_batch_buying_price,
                             !.expected_margin = expected_margin,
                             !.total_expected_profit =
                                 RatTimes(expected_margin, new_batch_quantity),
                             !.original_quantity = new_batch_quantity]]
            /\ products' = [products EXCEPT ![product_id].stock_quantity =
                               total_stock_other_batches + new_batch_quantity]
            /\ prices' = [prices EXCEPT ![product_id] =
                               PriceRow(new_retail_price, new_wholesale_price,
                                        new_wholesale_threshold)]
    /\ updates' = updates + 1
    /\ UNCHANGED <<salesdb, sess, started, call, now>>

\* update_specific_batch: option 1 changes the quantity, option 2 the
\* buying price, option 4 the prices; the margin is recomputed every time
UpdateSpecificBatch(batch_id, update_option, quantity_input, buying_input) ==
    /\ updates < MaxUpdates
    /\ batch_id \in 1..Len(batches)
    /\ batches[batch_id].is_active
    /\ prices[batches[batch_id].product_id].present
    /\ \E retail_input \in RetailPriceInputs,
          wholesale_input \in WholesalePriceInputs,
          threshold_input \in WholesaleThresholdInputs :
         LET product_id == batches[batch_id].product_id
             new_quantity == IF update_option = 1 THEN quantity_input
                             ELSE batches[batch_id].quantity
             new_buying_price == IF update_option = 2 THEN buying_input
                                 ELSE batches[batch_id].buying_price
             new_prices == IF update_option = 4
                           THEN PriceRow(retail_input, wholesale_input, threshold_input)
                           ELSE prices[product_id]
             expected_margin ==
                 calculate_expected_margin(sale_items, new_prices.retail_price,
                     new_prices.wholesale_price, new_buying_price, product_id)
             total_stock ==
                 TotalQuantity(batches, ActiveBatches(batches, product_id) \ {batch_id})
                 + new_quantity
         IN /\ batches' = [batches EXCEPT ![batch_id] =
                   [@ EXCEPT !.quantity = new_quantity,
                             !.buying_price = new_buying_price,
                             !.expected_margin = expected_margin,
                             !.total_expected_profit =
                                 RatTimes(expected_margin, new_quantity),
                             !.original_quantity = new_quantity]]
            /\ products' = [products EXCEPT ![product_id].stock_quantity = total_stock]
            /\ prices' = [prices EXCEPT ![product_id] = new_prices]
    /\ updates' = updates + 1
    /\ UNCHANGED <<salesdb, sess, started, call, now>>

\* update_all_product_info: without an active batch a batch holding the
\* product's current stock is created; otherwise one active batch is
\* rewritten, costs and received_date included
UpdateAllProductInfo(product_id, batch_id, new_quantity, buying_price, shipping_cost) ==
    /\ updates < MaxUpdates
    /\ products[product_id].present
    /\ \E handling_cost \in HandlingCostInputs,
          retail_price \in RetailPriceInputs,
          wholesale_price \in WholesalePriceInputs,
          wholesale_threshold \in WholesaleThresholdInputs,
          reading \in ClockReadings :
         LET expected_margin ==
                 calculate_expected_margin(sale_items, retail_price, wholesale_price,
                     buying_price + shipping_cost + handling_cost, product_id)
         IN /\ now' = reading
            /\ IF ActiveBatches(batches, product_id) = {}
               THEN /\ Len(batches) < MaxBatches
                    /\ batches' = Append(batches,
                           create_stock_batch(product_id, expected_margin,
                               buying_price, shipping_cost, handling_cost,
                               products[product_id].stock_quantity, reading))
                    /\ UNCHANGED <<products, prices>>
               ELSE /\ batch_id \in ActiveBatches(batches, product_id)
                    /\ batches' = [batches EXCEPT ![batch_id] =
                           [@ EXCEPT !.quantity = new_quantity,
                                     !.buying_price = buying_price,
                                     !.expected_margin = expected_margin,
                                     !.total_expected_profit =
                                         RatTimes(expected_margin, new_quantity),
                                     !.shipping_cost = shipping_cost,
                                     !.handling_cost = handling_cost,
                                     !.received_date = reading,
                                     !.original_quantity = new_quantity]]
                    /\ products' = [products EXCEPT ![product_id].stock_quantity =
                           TotalQuantity(batches,
                               ActiveBatches(batches, product_id) \ {batch_id})
                           + new_quantity]
                    /\ prices' = [prices EXCEPT ![product_id] =
                           PriceRow(retail_price, wholesale_price, wholesale_threshold)]
    /\ updates' = updates + 1
    /\ UNCHANGED <<salesdb, sess, started, call>>

\* update_all_multi_units_comprehensive on a hierarchy that is its root
\* unit alone: the unit's stock is keyed in and written to the product
\* and to every active batch of the unit
UpdateAllMultiUnits(unit_id, new_stock, buying_price, shipping_cost) ==
    /\ updates < MaxUpdates
    /\ products[unit_id].present
    /\ ActiveBatches(batches, unit_id) # {}
    /\ \E handling_cost \in HandlingCostInputs,
          retail_price \in RetailPriceInputs,
          wholesale_price \in WholesalePriceInputs,
          wholesale_threshold \in WholesaleThresholdInputs,
          reading \in ClockReadings :
         LET expected_margin ==
                 calculate_expected_margin(sale_items, retail_price, wholesale_price,
                     buying_price + shipping_cost + handling_cost, unit_id)
         IN /\ now' = reading
            /\ products' = [products EXCEPT ![unit_id].stock_quantity = new_stock]
            /\ prices' = [prices EXCEPT ![unit_id] =
                   PriceRow(retail_price, wholesale_price, wholesale_threshold)]
            /\ batches' = [i \in 1..Len(batches) |->
                   IF batches[i].product_id = unit_id /\ batches[i].is_active
                   THEN [batches[i] EXCEPT
                           !.quantity = new_stock,
                           !.buying_price = buying_price,
                           !.shipping_cost = shipping_cost,
                           !.handling_cost = handling_cost,
                           !.expected_margin = expected_margin,
                           !.total_expected_profit =
                               RatTimes(expected_margin, new_stock),
                           !.received_date = reading,
                           !.original_quantity = new_stock]
                   ELSE batches[i]]
    /\ updates' = updates + 1
    /\ UNCHANGED <<salesdb, sess, started, call>>

\* ------------------------------------------------------- Excel import
ProductBatches(bs, product_id) ==
    {i \in 1..Len(bs) : bs[i].product_id = product_id}

\* the batch numbers of a product ORDER BY received_date ASC, id ASC
BatchNames(bs, product_id) ==
    LET order == OrderBatches(bs, ProductBatches(bs, product_id))
    IN [k \in 1..Len(order) |-> bs[order[k]].batch_number]

\* list.index(batch_name) + 1
FilterNumber(bs, i) ==
    LET names == BatchNames(bs, bs[i].product_id)
    IN CHOOSE k \in 1..Len(names) :
           /\ names[k] = bs[i].batch_number
           /\ \A j \in 1..(k - 1) : names[j] # bs[i].batch_number

\* get_existing_batches_for_product: the batch a filter number stands for,
\* 0 when the number is not one of the product's filter numbers
BatchForFilter(bs, product_id, filter_num) ==
    LET S == {i \in ProductBatches(bs, product_id) : FilterNumber(bs, i) = filter_num}
    IN IF S = {} THEN 0 ELSE CHOOSE i \in S : \A j \in S : i <= j

\* the last row fetch_sample_products returns for the product
LastBatch(bs, product_id) ==
    CHOOSE i \in ProductBatches(bs, product_id) :
        \A j \in ProductBatches(bs, product_id) : j <= i

\* check_stock_quantity_changes_from_product_data
check_stock_quantity_changes(bs, product_id, stock_quantity) ==
    bs[LastBatch(bs, product_id)].quantity # stock_quantity

\* the name carries the date and the nanoseconds of the call; the batch's
\* serial number stands for the nanoseconds, taken to differ from call to
\* call
generate_batch_name(reading, timestamp_ns) == <<"BTCH", reading, timestamp_ns>>

create_stock_batch_transactional(product_id, batch_name, stock_quantity, buying_price, shipping_cost, handling_cost, retail_price, reading) ==
    LET expected_margin ==
            Rat(retail_price - (buying_price + shipping_cost + handling_cost), 1)
    IN [product_id |-> product_id,
        batch_number |-> batch_name,
        quantity |-> stock_quantity,
        original_quantity |-> stock_quantity,
        buying_price |-> buying_price,
        shipping_cost |-> shipping_cost,
        handling_cost |-> handling_cost,
        received_date |-> reading,
        is_active |-> DefaultIsActive,
        expected_margin |-> expected_margin,
        total_expected_profit |-> RatTimes(expected_margin, stock_quantity),
        actual_margin |-> DefaultActualMargin,
        total_actual_profit |-> DefaultTotalActualProfit]

update_existing_batch_transactional(bs, product_id, batch_name, stock_quantity, buying_price, shipping_cost, handling_cost, retail_price, wholesale_price) ==
    LET landed == buying_price + shipping_cost + handling_cost
        expected_margin ==
            Rat((retail_price - landed) * 7 + (wholesale_price - landed) * 3, 10)
        changed == check_stock_quantity_changes(bs, product_id, stock_quantity)
    IN [i \in 1..Len(bs) |->
           IF bs[i].product_id = product_id /\ bs[i].batch_number = batch_name
           THEN [bs[i] EXCEPT
                   !.quantity = stock_quantity,
                   !.buying_price = buying_price,
                   !.shipping_cost = shipping_cost,
                   !.handling_cost = handling_cost,
                   !.expected_margin = expected_margin,
                   !.total_expected_profit =
                       RatTimes(expected_margin, stock_quantity),
                   !.original_quantity =
                       IF changed THEN stock_quantity ELSE @]
           ELSE bs[i]]

\* one row of validate_and_import_data in its own transaction: a new
\* product with its first batch, an update of the batch the filter number
\* names, or a new batch for an existing product
ExcelImportRow(product_id, filter_num, stock_quantity, buying_price, shipping_cost) ==
    \E handling_cost \in HandlingCostInputs,
       retail_price \in RetailPriceInputs,
       wholesale_price \in WholesalePriceInputs,
       wholesale_threshold \in WholesaleThresholdInputs,
       reading \in ClockReadings :
      LET is_update == /\ products[product_id].present
                       /\ filter_num >= 1
                       /\ BatchForFilter(batches, product_id, filter_num) # 0
          new_batch == create_stock_batch_transactional(product_id,
                           generate_batch_name(reading, Len(batches) + 1),
                           stock_quantity, buying_price, shipping_cost,
                           handling_cost, retail_price, reading)
          new_prices == PriceRow(retail_price, wholesale_price, wholesale_threshold)
      IN /\ IF ~products[product_id].present
            THEN /\ \A p \in Products : p < product_id => products[p].present
                 /\ Len(batches) < MaxBatches
                 /\ products' = [products EXCEPT ![product_id] =
                        [present |-> TRUE, stock_quantity |-> stock_quantity]]
                 /\ batches' = Append(batches, new_batch)
                 /\ updates' = updates
            ELSE IF is_update
            THEN /\ updates < MaxUpdates
                 /\ LET updated == update_existing_batch_transactional(batches,
                            product_id,
                            batches[BatchForFilter(batches, product_id,
                                                   filter_num)].batch_number,
                            stock_quantity, buying_price, shipping_cost,
                            handling_cost, retail_price, wholesale_price)
                    IN /\ batches' = updated
                       /\ products' = [products EXCEPT ![product_id].stock_quantity =
                              TotalQuantity(updated,
                                            ProductBatches(updated, product_id))]
                 /\ updates' = updates + 1
            ELSE /\ Len(batches) < MaxBatches
                 /\ products' = [products EXCEPT ![product_id].stock_quantity =
                        @ + stock_quantity]
                 /\ batches' = Append(batches, new_batch)
                 /\ updates' = updates
         /\ prices' = [prices EXCEPT ![product_id] = new_prices]
         /\ now' = reading
         /\ UNCHANGED <<salesdb, sess, started, call>>

\* ------------------------------------------------------------ make_sale
StartSale(s) ==
    /\ sess[s].pc = "idle"
    /\ started < MaxSales
    /\ started' = started + 1
    /\ sess' = [sess EXCEPT ![s] = [IdleSession EXCEPT !.pc = "search"]]
    /\ UNCHANGED <<inventory, salesdb, updates, now, call>>

\* search_products returns the row of a product that has prices
SearchProduct(s, product_id) ==
    /\ sess[s].pc = "search"
    /\ Len(sess[s].cart) < MaxCart
    /\ products[product_id].present
    /\ prices[product_id].present
    /\ sess' = [sess EXCEPT
                  ![s].pc = "quantity",
                  ![s].notice = "",
                  ![s].product =
                      [id |-> product_id,
                       stock_quantity |-> products[product_id].stock_quantity,
                       retail_price |-> prices[product_id].retail_price,
                       wholesale_price |-> prices[product_id].wholesale_price,
                       wholesale_threshold |-> prices[product_id].wholesale_threshold]]
    /\ UNCHANGED <<inventory, salesdb, started, call, updates, now>>

\* the cart item make_sale appends for a selection
CartItem(product, quantity, use_wholesale, batches_for_sale) ==
    LET is_wholesale == /\ product.wholesale_price # 0
                        /\ product.wholesale_threshold # 0
                        /\ quantity >= product.wholesale_threshold
                        /\ use_wholesale
        price == IF is_wholesale THEN product.wholesale_price
                 ELSE product.retail_price
    IN [product_id |-> product.id,
        quantity |-> quantity,
        unit_price |-> price,
        is_wholesale |-> is_wholesale,
        current_stock |-> product.stock_quantity,
        batches |-> batches_for_sale]

\* the quantity prompt, the FIFO selection and the cart append
EnterQuantity(s, quantity, use_wholesale) ==
    /\ sess[s].pc = "quantity"
    /\ quantity > 0
    /\ quantity <= sess[s].product.stock_quantity
    /\ LET batches_for_sale ==
               get_stock_batches_for_sale(batches, sess[s].product.id, quantity)
       IN IF batches_for_sale = None
          THEN sess' = [sess EXCEPT
                          ![s].pc = "search",
                          ![s].product = NoRow,
                          ![s].notice = "Insufficient stock across batches"]
          ELSE sess' = [sess EXCEPT
                          ![s].pc = "search",
                          ![s].product = NoRow,
                          ![s].cart = Append(@,
                              CartItem(sess[s].product, quantity,
                                       use_wholesale, batches_for_sale))]
    /\ UNCHANGED <<inventory, salesdb, started, call, updates, now>>

\* leaving the cart loop with an empty cart, declining the confirmation
\* or giving no valid payment method
CancelSale(s) ==
    /\ sess[s].pc = "search"
    /\ sess' = [sess EXCEPT ![s] = IdleSession]
    /\ UNCHANGED <<inventory, salesdb, started, call, updates, now>>

RECURSIVE CartTotal(_)
CartTotal(cart) ==
    IF cart = <<>> THEN 0
    ELSE Head(cart).unit_price * Head(cart).quantity + CartTotal(Tail(cart))

RECURSIVE SaleItemRows(_, _)
SaleItemRows(sale_id, cart) ==
    IF cart = <<>> THEN <<>>
    ELSE <<[sale_id |-> sale_id,
            product_id |-> Head(cart).product_id,
            quantity |-> Head(cart).quantity,
            unit_price |-> Head(cart).unit_price,
            is_wholesale |-> Head(cart).is_wholesale,
            cost_price |-> NULL]>> \o SaleItemRows(sale_id, Tail(cart))

RECURSIVE BatchAllocationRows(_, _, _)
BatchAllocationRows(sale_id, product_id, batches_for_sale) ==
    IF batches_for_sale = <<>> THEN <<>>
    ELSE <<[sale_id |-> sale_id,
            product_id |-> product_id,
            batch_id |-> Head(batches_for_sale).batch_id,
            quantity |-> Head(batches_for_sale).quantity_to_deduct]>>
         \o BatchAllocationRows(sale_id, product_id, Tail(batches_for_sale))

RECURSIVE AllocationRows(_, _)
AllocationRows(sale_id, cart) ==
    IF cart = <<>> THEN <<>>
    ELSE BatchAllocationRows(sale_id, Head(cart).product_id, Head(cart).batches)
         \o AllocationRows(sale_id, Tail(cart))

\* the cart is confirmed; steps 1-3: header, lines and allocations in one
\* sales.db transaction
RecordSale(s) ==
    /\ sess[s].pc = "search"
    /\ sess[s].cart # <<>>
    /\ LET sale_id == Len(sales) + 1
       IN /\ sales' = Append(sales, [total_price |-> CartTotal(sess[s].cart)])
          /\ sale_items' = sale_items \o SaleItemRows(sale_id, sess[s].cart)
          /\ allocations' = allocations \o AllocationRows(sale_id, sess[s].cart)
          /\ sess' = [sess EXCEPT ![s].pc = "stock", ![s].sale_id = sale_id,
                                   ![s].notice = ""]
    /\ UNCHANGED <<inventory, started, call, updates, now>>

\* step 4: every cart item overwrites its product's stock with the
\* quantity read at search time minus the item's quantity
RECURSIVE StockAfterSale(_, _)
StockAfterSale(prods, cart) ==
    IF cart = <<>> THEN prods
    ELSE LET item == Head(cart)
             new_stock == item.current_stock - item.quantity
         IN StockAfterSale(
                [prods EXCEPT ![item.product_id].stock_quantity = new_stock],
                Tail(cart))

UpdateProductStock(s) ==
    /\ sess[s].pc = "stock"
    /\ products' = StockAfterSale(products, sess[s].cart)
    /\ sess' = [sess EXCEPT ![s].pc = "batches", ![s].idx = 1]
    /\ UNCHANGED <<prices, batches, salesdb, started, call, updates, now>>

\* a stored value is NULL exactly when it is not a number; every writer of
\* actual_margin and total_actual_profit stores a number
IsNull(v) == v \notin Int

calculate_batch_profit(bs, batch_id) ==
    LET batch == bs[batch_id]
        final_actual_margin == IF ~IsNull(batch.actual_margin)
                               THEN batch.actual_margin
                               ELSE batch.expected_margin
    IN IF batch.quantity = 0 /\ IsNull(batch.total_actual_profit)
       THEN [bs EXCEPT ![batch_id].actual_margin = final_actual_margin,
                       ![batch_id].total_actual_profit =
                           final_actual_margin * batch.original_quantity]
       ELSE bs

\* step 6 for one cart item: the batches the selection expected to empty
RECURSIVE FinalizeDepleted(_, _)
FinalizeDepleted(bs, batches_for_sale) ==
    IF batches_for_sale = <<>> THEN bs
    ELSE LET batch == Head(batches_for_sale)
         IN FinalizeDepleted(
                IF batch.current_quantity - batch.quantity_to_deduct <= 0
                THEN calculate_batch_profit(bs, batch.batch_id) ELSE bs,
                Tail(batches_for_sale))

\* AVG(landed_cost) over the product's active batches, 0 when there is none
calculate_fallback_cost_price(bs, product_id) ==
    LET S == {i \in 1..Len(bs) : bs[i].product_id = product_id /\ bs[i].is_active}
        RECURSIVE Total(_)
        Total(T) == IF T = {} THEN 0
                    ELSE LET i == CHOOSE i \in T : TRUE
                         IN landed_cost(bs[i]) + Total(T \ {i})
    IN IF S = {} THEN Rat(0, 1) ELSE Rat(Total(S), Cardinality(S))

RECURSIVE AllocatedCost(_, _, _, _)
AllocatedCost(bs, allocs, sale_id, product_id) ==
    IF allocs = <<>> THEN <<0, 0>>
    ELSE LET a == Head(allocs)
             rest == AllocatedCost(bs, Tail(allocs), sale_id, product_id)
         IN IF a.sale_id = sale_id /\ a.product_id = product_id
            THEN <<rest[1] + landed_cost(bs[a.batch_id]) * a.quantity,
                   rest[2] + a.quantity>>
            ELSE rest

\* step 7: the average landed cost of a line's allocations goes into
\* cost_price of every line of that sale and product
RECURSIVE calculate_sale_profit(_, _, _, _, _)
calculate_sale_profit(items, bs, allocs, sale_id, cart) ==
    IF cart = <<>> THEN items
    ELSE LET product_id == Head(cart).product_id
             cost == AllocatedCost(bs, allocs, sale_id, product_id)
             average_cost_price ==
                 IF cost[2] > 0 THEN Rat(cost[1], cost[2])
                 ELSE calculate_fallback_cost_price(bs, product_id)
             updated == [k \in 1..Len(items) |->
                            IF items[k].sale_id = sale_id
                               /\ items[k].product_id = product_id
                            THEN [items[k] EXCEPT !.cost_price = average_cost_price]
                            ELSE items[k]]
         IN calculate_sale_profit(updated, bs, allocs, sale_id, Tail(cart))

\* steps 5 and 6 for the next cart item; after the last item step 7 fills
\* in the cost prices and the sale is reported complete
UpdateBatches(s) ==
    /\ sess[s].pc = "batches"
    /\ LET item == sess[s].cart[sess[s].idx]
           last == sess[s].idx = Len(sess[s].cart)
           updated == FinalizeDepleted(
                          update_stock_batches_after_sale(batches, item.batches,
                                                          item.unit_price),
                          item.batches)
           profit_data == total_actual_profit(item.batches, item.unit_price)
       IN /\ batches' = updated
          /\ sale_items' = IF last
                           THEN calculate_sale_profit(sale_items, updated, allocations,
                                                      sess[s].sale_id, sess[s].cart)
                           ELSE sale_items
          /\ sess' = [sess EXCEPT ![s] =
                        IF last
                        THEN [IdleSession EXCEPT !.profit = profit_data]
                        ELSE [@ EXCEPT !.profit = profit_data, !.idx = @ + 1]]
    /\ UNCHANGED <<products, prices, sales, allocations, started, call, updates, now>>

\* ------------------------------------------------------------------ Next
Next ==
    \/ \E p \in Products, q \in QuantityInputs,
          b \in BuyingPriceInputs, sh \in ShippingCostInputs :
           InsertSingleProduct(p, q, b, sh)
    \/ \E p \in Products, q \in QuantityInputs,
          b \in BuyingPriceInputs, sh \in ShippingCostInputs :
           AddSingleUnitBatch(p, q, b, sh)
    \/ \E i \in 1..MaxBatches, q \in QuantityInputs, b \in BuyingPriceInputs :
           UpdateBasicProductInfo(i, q, b)
    \/ \E i \in 1..MaxBatches, o \in {1, 2, 4},
          q \in QuantityInputs, b \in BuyingPriceInputs :
           UpdateSpecificBatch(i, o, q, b)
    \/ \E p \in Products, i \in 1..MaxBatches, q \in QuantityInputs,
          b \in BuyingPriceInputs, sh \in UpdateShippingCostInputs :
           UpdateAllProductInfo(p, i, q, b, sh)
    \/ \E p \in Products, q \in QuantityInputs,
          b \in BuyingPriceInputs, sh \in UpdateShippingCostInputs :
           UpdateAllMultiUnits(p, q, b, sh)
    \/ \E p \in Products, f \in 0..MaxBatches, q \in QuantityInputs,
          b \in BuyingPriceInputs, sh \in ShippingCostInputs :
           ExcelImportRow(p, f, q, b, sh)
    \/ \E s \in Sessions : StartSale(s)
    \/ \E s \in Sessions, p \in Products : SearchProduct(s, p)
    \/ \E s \in Sessions, q \in SaleQuantityInputs, w \in BOOLEAN :
           EnterQuantity(s, q, w)
    \/ \E s \in Sessions : CancelSale(s)
    \/ \E s \in Sessions : RecordSale(s)
    \/ \E s \in Sessions : UpdateProductStock(s)
    \/ \E s \in Sessions : UpdateBatches(s)

Spec == Init /\ [][Next]_vars

\* ------------------------------------------------- the sale path alone
\* The ledger functions get_stock_batches_for_sale and
\* update_stock_batches_after_sale applied by one sale to every stock
\* ledger of up to MaxLedger receipts: the receipts carry any received
\* dates (update_all_product_info re-dates a batch), quantities and costs,
\* and no sale has been made yet.
MaxLedger == 3

LedgerDates == 0..2

LedgerBatch(product_id, quantity, shipping_cost, received) ==
    create_stock_batch(product_id,
        calculate_expected_margin(<<>>, 150, 120, 100 + shipping_cost, 0),
        100, shipping_cost, 0, quantity, received)

Ledgers ==
    UNION {[1..n -> {LedgerBatch(1, q, sh, d) :
                        q \in QuantityInputs, sh \in ShippingCostInputs,
                        d \in LedgerDates}] : n \in 1..MaxLedger}

LedgerInit ==
    /\ batches \in Ledgers
    /\ products = [p \in Products |->
                      [present |-> TRUE,
                       stock_quantity |->
                           TotalQuantity(batches, ActiveBatches(batches, p))]]
    /\ prices = [p \in Products |-> PriceRow(150, 120, 5)]
    /\ sales = <<>>
    /\ sale_items = <<>>
    /\ allocations = <<>>
    /\ sess = [s \in Sessions |-> IdleSession]
    /\ started = 0
    /\ updates = 0
    /\ now = 2
    /\ call = NoCall

SaleNext ==
    \/ \E s \in Sessions : StartSale(s)
    \/ \E s \in Sessions, p \in Products : SearchProduct(s, p)
    \/ \E s \in Sessions, q \in SaleQuantityInputs, w \in BOOLEAN :
           EnterQuantity(s, q, w)
    \/ \E s \in Sessions : CancelSale(s)
    \/ \E s \in Sessions : RecordSale(s)
    \/ \E s \in Sessions : UpdateProductStock(s)
    \/ \E s \in Sessions : UpdateBatches(s)

SaleSpec == LedgerInit /\ [][SaleNext]_vars


\* ------------------------------------------- the unit hierarchy resolver
\* (validate_and_import_data, step 1 and step 2, without the database)
MaxUnits == 3
\* a BIG_UNIT that is the UNIT of no row
GhostUnit == 9

\* safe_float: None for an empty cell, <<x>> for a cell holding x
Empty == <<>>

\* the value cells a row is drawn from: Empty is an empty cell; costs are in
\* hundredths
RowValues ==
    <<[stock_quantity |-> Empty, buying_price |-> Empty, shipping_cost |-> Empty,
      handling_cost |-> Empty, low_stock_threshold |-> Empty],
     [stock_quantity |-> <<4>>, buying_price |-> <<10000>>, shipping_cost |-> <<1000>>,
      handling_cost |-> <<500>>, low_stock_threshold |-> <<2>>],
     [stock_quantity |-> <<0>>, buying_price |-> <<0>>, shipping_cost |-> <<0>>,
      handling_cost |-> <<0>>, low_stock_threshold |-> <<2>>],
     [stock_quantity |-> <<4>>, buying_price |-> Empty, shipping_cost |-> Empty,
      handling_cost |-> Empty, low_stock_threshold |-> Empty],
     [stock_quantity |-> Empty, buying_price |-> <<5000>>, shipping_cost |-> Empty,
      handling_cost |-> <<100>>, low_stock_threshold |-> Empty]>>
RelationInputs == {0, 3, 8}

\* round(x, 2) of x = n / d hundredths, d > 0: to the nearest hundredth, a
\* tie to the even one (every tie of the inputs above is a binary fraction,
\* which the floating point division represents exactly)
Round2(n, d) ==
    LET q == n \div d
        r == n % d
    IN IF 2 * r < d THEN q
       ELSE IF 2 * r > d THEN q + 1
       ELSE IF q % 2 = 0 THEN q ELSE q + 1

\* v or 0
OrZero(v) == IF v = Empty THEN 0 ELSE v[1]

\* one iteration of build_product_hierarchy: the entry of a row's unit
HierarchyEntry(big_unit, relation_input, values) ==
    [big_unit |-> big_unit,
     relation |-> IF relation_input <= 0 THEN 1 ELSE relation_input,
     has_values |-> \/ (values.stock_quantity # Empty /\ values.stock_quantity[1] > 0)
                    \/ (values.buying_price # Empty /\ values.buying_price[1] > 0)
                    \/ (values.shipping_cost # Empty /\ values.shipping_cost[1] > 0)
                    \/ (values.handling_cost # Empty /\ values.handling_cost[1] > 0),
     stock_quantity |-> values.stock_quantity,
     buying_price |-> values.buying_price,
     shipping_cost |-> values.shipping_cost,
     handling_cost |-> values.handling_cost,
     low_stock_threshold |-> values.low_stock_threshold]

\* the while loop of build_hierarchy_path; big_unit 0 is no BIG_UNIT
RECURSIVE FollowParents(_, _, _, _)
FollowParents(product_hierarchy, current_unit, hierarchy_path, visited_units) ==
    LET parent_unit == product_hierarchy[current_unit].big_unit
    IN IF parent_unit = 0 \/ parent_unit \in visited_units
       THEN hierarchy_path
       ELSE IF parent_unit \in DOMAIN product_hierarchy
       THEN FollowParents(product_hierarchy, parent_unit,
                Append(hierarchy_path,
                       [unit |-> parent_unit,
                        relation |-> product_hierarchy[parent_unit].relation]),
                visited_units \cup {parent_unit})
       ELSE Append(hierarchy_path, [unit |-> parent_unit, relation |-> 1])

build_hierarchy_path(start_unit, product_hierarchy) ==
    IF start_unit \in DOMAIN product_hierarchy
    THEN FollowParents(product_hierarchy, start_unit,
             <<[unit |-> start_unit,
                relation |-> product_hierarchy[start_unit].relation]>>,
             {start_unit})
    ELSE <<>>

RECURSIVE RelationProduct(_, _, _)
RelationProduct(hierarchy_path, i, last) ==
    IF i > last THEN 1
    ELSE hierarchy_path[i].relation * RelationProduct(hierarchy_path, i + 1, last)

\* (no relation at all, against which the product is tested)
NoRelation(hierarchy_path, target_unit) == 1

calculate_cumulative_relation(hierarchy_path, target_unit) ==
    LET found == {i \in 1..Len(hierarchy_path) : hierarchy_path[i].unit = target_unit}
    IN IF hierarchy_path = <<>> \/ found = {} THEN 1
       ELSE LET target_index == CHOOSE i \in found : \A j \in found : i <= j
            IN RelationProduct(hierarchy_path, target_index,
                               Len(hierarchy_path) - 1)

\* the unit whose entry is returned, 0 for None
RECURSIVE find_parent_with_values_recursive(_, _, _)
find_parent_with_values_recursive(unit, product_hierarchy, visited) ==
    IF unit \in visited \/ unit \notin DOMAIN product_hierarchy THEN 0
    ELSE IF product_hierarchy[unit].has_values THEN unit
    ELSE IF product_hierarchy[unit].big_unit # 0
    THEN find_parent_with_values_recursive(product_hierarchy[unit].big_unit,
             product_hierarchy, visited \cup {unit})
    ELSE 0

\* (every field taken from the parent, against which the keeping of the
\* row's own cells is tested)
AllFromParent(child, parent_data, cumulative_relation) ==
    [stock_quantity |-> OrZero(parent_data.stock_quantity) * cumulative_relation,
     buying_price |-> Round2(OrZero(parent_data.buying_price), cumulative_relation),
     shipping_cost |-> Round2(OrZero(parent_data.shipping_cost), cumulative_relation),
     handling_cost |-> Round2(OrZero(parent_data.handling_cost), cumulative_relation),
     low_stock_threshold |->
         OrZero(parent_data.low_stock_threshold) * cumulative_relation]

calculate_child_values(child, parent_data, cumulative_relation) ==
    [stock_quantity |->
         IF child.stock_quantity = Empty
         THEN OrZero(parent_data.stock_quantity) * cumulative_relation
         ELSE child.stock_quantity[1],
     buying_price |->
         IF child.buying_price = Empty
         THEN Round2(OrZero(parent_data.buying_price), cumulative_relation)
         ELSE child.buying_price[1],
     shipping_cost |->
         IF child.shipping_cost = Empty
         THEN Round2(OrZero(parent_data.shipping_cost), cumulative_relation)
         ELSE child.shipping_cost[1],
     handling_cost |->
         IF child.handling_cost = Empty
         THEN Round2(OrZero(parent_data.handling_cost), cumulative_relation)
         ELSE child.handling_cost[1],
     low_stock_threshold |->
         IF child.low_stock_threshold = Empty
         THEN OrZero(parent_data.low_stock_threshold) * cumulative_relation
         ELSE child.low_stock_threshold[1]]

\* the row's own cells, an empty cell read as 0
ProvidedValues(row_data) ==
    [stock_quantity |-> OrZero(row_data.stock_quantity),
     buying_price |-> OrZero(row_data.buying_price),
     shipping_cost |-> OrZero(row_data.shipping_cost),
     handling_cost |-> OrZero(row_data.handling_cost),
     low_stock_threshold |-> OrZero(row_data.low_stock_threshold)]

check_and_calculate_relation_values(unit, row_data, product_hierarchy) ==
    LET hierarchy_path == build_hierarchy_path(unit, product_hierarchy)
        cumulative_relation == calculate_cumulative_relation(hierarchy_path, unit)
        parent == find_parent_with_values_recursive(unit, product_hierarchy, {})
    IN IF product_hierarchy = <<>> \/ hierarchy_path = <<>> \/ parent = 0
       THEN [values |-> ProvidedValues(row_data), is_child_unit |-> FALSE,
             cumulative_relation |-> cumulative_relation, parent |-> parent]
       ELSE [values |-> calculate_child_values(row_data,
                            product_hierarchy[parent], cumulative_relation),
             is_child_unit |-> TRUE,
             cumulative_relation |-> cumulative_relation, parent |-> parent]

\* the import reads a sheet of up to MaxUnits rows, row k being unit k
ResolverInit ==
    /\ products = [p \in Products |-> NoProduct]
    /\ prices = [p \in Products |-> NoPrice]
    /\ batches = <<>>
    /\ sales = <<>>
    /\ sale_items = <<>>
    /\ allocations = <<>>
    /\ sess = [s \in Sessions |-> IdleSession]
    /\ started = 0
    /\ updates = 0
    /\ now = 0
    /\ call = [op |-> "validate_and_import_data", sheet |-> <<>>,
               product_hierarchy |-> <<>>, built |-> FALSE, log |-> <<>>,
               stored |-> <<>>]

\* build_product_hierarchy: the loop body for the next row of the sheet
BuildHierarchyRow(big_unit, relation_input, values) ==
    /\ call.op = "validate_and_import_data"
    /\ ~call.built
    /\ Len(call.product_hierarchy) < MaxUnits
    /\ call' = [call EXCEPT
                   !.sheet = Append(@, [big_unit |-> big_unit,
                                        relation_of_unity |-> relation_input]),
                   !.product_hierarchy =
                       Append(@, HierarchyEntry(big_unit, relation_input, values))]
    /\ UNCHANGED <<inventory, salesdb, sess, started, updates, now>>

\* build_product_hierarchy returns
HierarchyBuilt ==
    /\ call.op = "validate_and_import_data"
    /\ ~call.built
    /\ call.product_hierarchy # <<>>
    /\ call' = [call EXCEPT !.built = TRUE]
    /\ UNCHANGED <<inventory, salesdb, sess, started, updates, now>>

\* product_data['relation'] of a row: the cell, or 1 when it is not positive
product_data_relation(relation_input) ==
    IF relation_input <= 0 THEN 1 ELSE relation_input

\* the products row insert_new_product_with_batch_transactional writes
ProductRow(unit, big_unit, relation) ==
    [unit |-> unit, big_unit |-> big_unit, relation_to_parent |-> relation]

\* step 2 for the next row of the sheet: the resolver, then the relation
\* cell is read again and the product is inserted (the sheet names new
\* products, with a UNIT and no negative price, so validate_product_row
\* passes)
ResolveRow ==
    /\ call.op = "validate_and_import_data"
    /\ call.built
    /\ Len(call.log) < Len(call.product_hierarchy)
    /\ LET unit == Len(call.log) + 1
       IN call' = [call EXCEPT
                      !.log = Append(@,
                          check_and_calculate_relation_values(unit,
                              call.product_hierarchy[unit], call.product_hierarchy)),
                      !.stored = Append(@,
                          ProductRow(unit, call.sheet[unit].big_unit,
                              product_data_relation(
                                  call.sheet[unit].relation_of_unity)))]
    /\ UNCHANGED <<inventory, salesdb, sess, started, updates, now>>

ResolverNext ==
    \/ \E big_unit \in (0..Len(call.product_hierarchy)) \cup {GhostUnit},
          relation_input \in RelationInputs, row \in DOMAIN RowValues :
         BuildHierarchyRow(big_unit, relation_input, RowValues[row])
    \/ HierarchyBuilt
    \/ ResolveRow

ResolverSpec == ResolverInit /\ [][ResolverNext]_vars

\* ------------------------------------- make_sale, the writes that can fail
\* the commit phase of make_sale with the outcome of every attempt to write:
\* "ok", "locked" (sqlite3.OperationalError, database is locked) or "error"
\* (any other exception)
Outcomes == {"ok", "locked", "error"}
PaymentMethods == {"CASH", "DEBT", "OTHER"}

\* the attempts a step makes at most: the loops of
\* update_stock_batches_after_sale, calculate_batch_profit and
\* calculate_sale_profit; steps 1-3, 4 and 8 have no loop
max_retries(step) ==
    CASE step = "batches" -> 5
      [] step = "batch_profit" -> 3
      [] step = "sale_profit" -> 3
      [] OTHER -> 1

SagaInit ==
    /\ products = [p \in Products |-> NoProduct]
    /\ prices = [p \in Products |-> NoPrice]
    /\ batches = <<>>
    /\ sales = <<>>
    /\ sale_items = <<>>
    /\ allocations = <<>>
    /\ sess = [s \in Sessions |-> IdleSession]
    /\ started = 0
    /\ updates = 0
    /\ now = 0
    /\ \E payment_method \in PaymentMethods, cart_size \in 1..MaxCart :
          call = [op |-> "make_sale", pc |-> "sale",
                  payment_method |-> payment_method, cart_size |-> cart_size,
                  item |-> 1, tries |-> <<>>, writes |-> <<>>, reported |-> ""]

\* the write of the current step is over: it is logged with its attempts
Written(c, tries) ==
    [c EXCEPT !.tries = <<>>,
              !.writes = Append(@, [step |-> c.pc, item |-> c.item,
                                    outcomes |-> tries])]

\* the end of the loop body of step 5: the next item, or step 7
NextItem(c) ==
    IF c.item < c.cart_size
    THEN [c EXCEPT !.pc = "batches", !.item = @ + 1]
    ELSE [c EXCEPT !.pc = "sale_profit"]

\* SALE COMPLETED SUCCESSFULLY
Completed(c) == [c EXCEPT !.pc = "completed", !.reported = "completed"]

\* steps 1-3 in one transaction of the sales database; any exception:
\* "Error creating sale record", return
SagaRecordSale(outcome) ==
    /\ call.op = "make_sale"
    /\ call.pc = "sale"
    /\ call' = IF outcome = "ok"
               THEN [Written(call, <<outcome>>) EXCEPT !.pc = "stock"]
               ELSE [Written(call, <<outcome>>) EXCEPT !.pc = "returned",
                                                       !.reported = "error"]
    /\ UNCHANGED <<inventory, salesdb, sess, started, updates, now>>

\* step 4; any exception: "Error updating inventory", return
SagaUpdateStock(outcome) ==
    /\ call.op = "make_sale"
    /\ call.pc = "stock"
    /\ call' = IF outcome = "ok"
               THEN [Written(call, <<outcome>>) EXCEPT !.pc = "batches",
                                                       !.item = 1]
               ELSE [Written(call, <<outcome>>) EXCEPT !.pc = "returned",
                                                       !.reported = "error"]
    /\ UNCHANGED <<inventory, salesdb, sess, started, updates, now>>

\* step 5, one attempt of update_stock_batches_after_sale for the current
\* item; a locked database is tried again while attempts remain; when the
\* call returns None the loop continues with the next item; depleted says
\* whether a batch of the item reached 0, which step 6 then finalizes
SagaDeductBatches(outcome, depleted) ==
    /\ call.op = "make_sale"
    /\ call.pc = "batches"
    /\ LET tries == Append(call.tries, outcome)
       IN call' = IF outcome = "locked" /\ Len(tries) < max_retries("batches")
                  THEN [call EXCEPT !.tries = tries]
                  ELSE IF outcome = "ok" /\ depleted
                  THEN [Written(call, tries) EXCEPT !.pc = "batch_profit"]
                  ELSE NextItem(Written(call, tries))
    /\ UNCHANGED <<inventory, salesdb, sess, started, updates, now>>

\* step 6, one attempt of calculate_batch_profit; a failure is a warning
SagaBatchProfit(outcome) ==
    /\ call.op = "make_sale"
    /\ call.pc = "batch_profit"
    /\ LET tries == Append(call.tries, outcome)
       IN call' = IF outcome = "locked" /\ Len(tries) < max_retries("batch_profit")
                  THEN [call EXCEPT !.tries = tries]
                  ELSE NextItem(Written(call, tries))
    /\ UNCHANGED <<inventory, salesdb, sess, started, updates, now>>

\* step 7, one attempt of calculate_sale_profit; a failure is a warning;
\* step 8 writes nothing unless the payment is a debt or an other payment
SagaSaleProfit(outcome) ==
    /\ call.op = "make_sale"
    /\ call.pc = "sale_profit"
    /\ LET tries == Append(call.tries, outcome)
       IN call' = IF outcome = "locked" /\ Len(tries) < max_retries("sale_profit")
                  THEN [call EXCEPT !.tries = tries]
                  ELSE IF call.payment_method \in {"DEBT", "OTHER"}
                  THEN [Written(call, tries) EXCEPT !.pc = "payment"]
                  ELSE Completed(Written(call, tries))
    /\ UNCHANGED <<inventory, salesdb, sess, started, updates, now>>

\* step 8, the debt or other-payment record; a failure is a warning
SagaPayment(outcome) ==
    /\ call.op = "make_sale"
    /\ call.pc = "payment"
    /\ call' = Completed(Written(call, <<outcome>>))
    /\ UNCHANGED <<inventory, salesdb, sess, started, updates, now>>

SagaNext ==
    \/ \E outcome \in Outcomes : SagaRecordSale(outcome)
    \/ \E outcome \in Outcomes : SagaUpdateStock(outcome)
    \/ \E outcome \in Outcomes, depleted \in BOOLEAN :
         SagaDeductBatches(outcome, depleted)
    \/ \E outcome \in Outcomes : SagaBatchProfit(outcome)
    \/ \E outcome \in Outcomes : SagaSaleProfit(outcome)
    \/ \E outcome \in Outcomes : SagaPayment(outcome)

SagaSpec == SagaInit /\ [][SagaNext]_vars

\* --------------------------------------------- the rows of an import
\* (validate_and_import_data, the validation and the write of each row)
MaxErrors == 2
ImportQuantityInputs == {-5, 0, 5}
ImportBuyingPriceInputs == {-100, 100}
ImportRetailPriceInputs == {-150, 150}
NameInputs == {"", "Soda"}
UnitInputs == {"", "Crate"}

validate_product_row(name, unit, stock_quantity, buying_price, retail_price, wholesale_price) ==
    /\ name # ""
    /\ unit # ""
    /\ ~(retail_price < 0)

ImportInit ==
    /\ products = [p \in Products |-> NoProduct]
    /\ prices = [p \in Products |-> NoPrice]
    /\ batches = <<>>
    /\ sales = <<>>
    /\ sale_items = <<>>
    /\ allocations = <<>>
    /\ sess = [s \in Sessions |-> IdleSession]
    /\ started = 0
    /\ updates = 0
    /\ now = 0
    /\ call = [op |-> "import_rows", error_count |-> 0]

\* a row that passes validate_product_row is written in its transaction
ImportValidRow(name, unit, product_id, filter_num, stock_quantity, buying_price, shipping_cost) ==
    /\ call.op = "import_rows"
    /\ \E retail_price \in RetailPriceInputs, wholesale_price \in WholesalePriceInputs :
          validate_product_row(name, unit, stock_quantity, buying_price,
                               retail_price, wholesale_price)
    /\ ExcelImportRow(product_id, filter_num, stock_quantity, buying_price,
                      shipping_cost)

\* a row that fails it is counted and skipped
RejectRow(name, unit, stock_quantity, buying_price, retail_price) ==
    /\ call.op = "import_rows"
    /\ call.error_count < MaxErrors
    /\ \E wholesale_price \in WholesalePriceInputs :
          ~validate_product_row(name, unit, stock_quantity, buying_price,
                                retail_price, wholesale_price)
    /\ call' = [call EXCEPT !.error_count = @ + 1]
    /\ UNCHANGED <<inventory, salesdb, sess, started, updates, now>>

ImportNext ==
    \/ \E name \in NameInputs, unit \in UnitInputs, product_id \in Products,
          filter_num \in 0..MaxBatches,
          stock_quantity \in ImportQuantityInputs,
          buying_price \in ImportBuyingPriceInputs,
          shipping_cost \in ShippingCostInputs :
         ImportValidRow(name, unit, product_id, filter_num, stock_quantity,
                        buying_price, shipping_cost)
    \/ \E name \in NameInputs, unit \in UnitInputs,
          stock_quantity \in ImportQuantityInputs,
          buying_price \in ImportBuyingPriceInputs,
          retail_price \in ImportRetailPriceInputs :
         RejectRow(name, unit, stock_quantity, buying_price, retail_price)

ImportSpec == ImportInit /\ [][ImportNext]_vars

\* ------------------------------------------ CostCalculationService alone
\* calculate_expected_margin called for every price pair and landed cost,
\* for a new product (product_id 0) and for a product whose earlier sales
\* are any history of up to MaxHistory sale lines.
MaxHistory == 2

MarginPrices == {<<1500, 1200>>, <<150, 120>>, <<50, 40>>}

MarginCosts == {900, 100, 110, 2000}

\* <<quantity, is_wholesale>> of a sale line of the product
HistoryLines == {<<2, FALSE>>, <<8, FALSE>>, <<8, TRUE>>}

Histories == UNION {[1..n -> HistoryLines] : n \in 0..MaxHistory}

HistoryPrice(line) == IF line[2] THEN 120 ELSE 150

RECURSIVE HistoryQuantity(_)
HistoryQuantity(h) ==
    IF h = <<>> THEN 0 ELSE Head(h)[1] + HistoryQuantity(Tail(h))

RECURSIVE HistoryProfit(_)
HistoryProfit(h) ==
    IF h = <<>> THEN 0
    ELSE (HistoryPrice(Head(h)) - 100) * Head(h)[1] + HistoryProfit(Tail(h))

\* the databases after a receipt of 20 units at landed cost 100 and one
\* completed single-line sale per line of the history
HistoryInit(h) ==
    /\ products = [p \in Products |->
                      [present |-> TRUE, stock_quantity |-> 20 - HistoryQuantity(h)]]
    /\ prices = [p \in Products |-> PriceRow(150, 120, 5)]
    /\ batches = <<[LedgerBatch(1, 20, 0, 0) EXCEPT
                      !.quantity = 20 - HistoryQuantity(h),
                      !.actual_margin =
                          IF h = <<>> THEN DefaultActualMargin
                          ELSE HistoryPrice(h[Len(h)]) - 100,
                      !.total_actual_profit = HistoryProfit(h)]>>
    /\ sales = [k \in 1..Len(h) |-> [total_price |-> HistoryPrice(h[k]) * h[k][1]]]
    /\ sale_items = [k \in 1..Len(h) |->
                        [sale_id |-> k, product_id |-> 1, quantity |-> h[k][1],
                         unit_price |-> HistoryPrice(h[k]),
                         is_wholesale |-> h[k][2], cost_price |-> <<100, 1>>]]
    /\ allocations = [k \in 1..Len(h) |->
                         [sale_id |-> k, product_id |-> 1, batch_id |-> 1,
                          quantity |-> h[k][1]]]
    /\ sess = [s \in Sessions |-> IdleSession]
    /\ started = 0
    /\ updates = 0
    /\ now = 0

\* the ProductCosts the service returns
ProductCosts(items, retail_price, wholesale_price, landed, product_id) ==
    LET ratios == get_sales_stats(items, product_id)
    IN [retail_price |-> retail_price,
        wholesale_price |-> wholesale_price,
        landed_cost |-> landed,
        retail_profit |-> retail_price - landed,
        wholesale_profit |-> wholesale_price - landed,
        expected_margin |-> calculate_expected_margin(items, retail_price,
                                wholesale_price, landed, product_id),
        ratios |-> ratios,
        used_actual_data |->
            product_id # 0 /\ SoldQuantity(items, product_id, FALSE)
                              + SoldQuantity(items, product_id, TRUE) > 0]

\* the calls still to return and the calls that have returned
MaxCalls == 2

MarginInit ==
    /\ \E h \in Histories : HistoryInit(h)
    /\ call = [op |-> "calculate_expected_margin", pending |-> <<>>, log |-> <<>>]

CallExpectedMargin(retail_price, wholesale_price, landed, product_id) ==
    /\ call.op = "calculate_expected_margin"
    /\ call.pending = <<>>
    /\ Len(call.log) < MaxCalls
    /\ call' = [call EXCEPT !.pending =
                   <<[retail_price |-> retail_price,
                      wholesale_price |-> wholesale_price,
                      landed_cost |-> landed,
                      product_id |-> product_id]>>]
    /\ UNCHANGED <<inventory, salesdb, sess, started, updates, now>>

ReturnExpectedMargin ==
    /\ call.op = "calculate_expected_margin"
    /\ call.pending # <<>>
    /\ LET args == call.pending[1]
       IN call' = [call EXCEPT
                     !.pending = <<>>,
                     !.log = Append(@,
                         [args |-> args,
                          result |-> ProductCosts(sale_items, args.retail_price,
                                         args.wholesale_price, args.landed_cost,
                                         args.product_id)])]
    /\ UNCHANGED <<inventory, salesdb, sess, started, updates, now>>

MarginNext ==
    \/ \E pr \in MarginPrices, landed \in MarginCosts, product_id \in {0, 1} :
           CallExpectedMargin(pr[1], pr[2], landed, product_id)
    \/ ReturnExpectedMargin

MarginSpec == MarginInit /\ [][MarginNext]_vars

\* ------------------------------------- the resolver's walks, step by step
\* check_and_calculate_relation_values for one unit of a hierarchy map
\* whose BIG_UNIT cells may name any unit of the sheet, the unit itself or
\* a unit earlier or later in the sheet (so the references may form a
\* cycle), or no unit of the sheet
WalkValues == {1, 2, 5}
WalkRelationInput == 3

WalkHierarchies ==
    UNION {[1..n -> {HierarchyEntry(big_unit, WalkRelationInput, RowValues[row]) :
                        big_unit \in (0..n) \cup {GhostUnit}, row \in WalkValues}] :
           n \in 1..MaxUnits}

\* (a guard that never finds a unit in the visited set, against which the
\* cycle guard is tested)
NeverVisited(unit, visited) == FALSE

\* unit in visited
AlreadyVisited(unit, visited) == unit \in visited

WalkInit ==
    /\ products = [p \in Products |-> NoProduct]
    /\ prices = [p \in Products |-> NoPrice]
    /\ batches = <<>>
    /\ sales = <<>>
    /\ sale_items = <<>>
    /\ allocations = <<>>
    /\ sess = [s \in Sessions |-> IdleSession]
    /\ started = 0
    /\ updates = 0
    /\ now = 0
    /\ \E product_hierarchy \in WalkHierarchies :
          \E unit \in 1..Len(product_hierarchy) :
             call = [op |-> "check_and_calculate_relation_values",
                     product_hierarchy |-> product_hierarchy, unit |-> unit,
                     pc |-> "start", current_unit |-> unit,
                     hierarchy_path |-> <<>>, visited_units |-> {},
                     find_unit |-> unit, visited |-> {}, visits |-> <<>>,
                     parent |-> 0, values |-> ProvidedValues(product_hierarchy[unit])]

\* build_hierarchy_path up to its loop: the starting unit is on the path
BeginPath ==
    /\ call.op = "check_and_calculate_relation_values"
    /\ call.pc = "start"
    /\ call' = [call EXCEPT
                   !.pc = "path",
                   !.hierarchy_path =
                       <<[unit |-> call.unit,
                          relation |-> call.product_hierarchy[call.unit].relation]>>,
                   !.visited_units = {call.unit}]
    /\ UNCHANGED <<inventory, salesdb, sess, started, updates, now>>

\* one iteration of the while loop of build_hierarchy_path; after the break
\* find_parent_with_values_recursive is called with the unit
FollowParent ==
    /\ call.op = "check_and_calculate_relation_values"
    /\ call.pc = "path"
    /\ LET parent_unit == call.product_hierarchy[call.current_unit].big_unit
       IN call' =
            IF parent_unit = 0 \/ parent_unit \in call.visited_units
            THEN [call EXCEPT !.pc = "find"]
            ELSE IF parent_unit \in DOMAIN call.product_hierarchy
            THEN [call EXCEPT
                    !.hierarchy_path = Append(@,
                        [unit |-> parent_unit,
                         relation |-> call.product_hierarchy[parent_unit].relation]),
                    !.visited_units = @ \cup {parent_unit},
                    !.current_unit = parent_unit]
            ELSE [call EXCEPT
                    !.hierarchy_path = Append(@, [unit |-> parent_unit,
                                                  relation |-> 1]),
                    !.pc = "find"]
    /\ UNCHANGED <<inventory, salesdb, sess, started, updates, now>>

\* one call of find_parent_with_values_recursive
FindParent ==
    /\ call.op = "check_and_calculate_relation_values"
    /\ call.pc = "find"
    /\ call' =
         IF \/ AlreadyVisited(call.find_unit, call.visited)
            \/ call.find_unit \notin DOMAIN call.product_hierarchy
         THEN [call EXCEPT !.pc = "found", !.parent = 0]
         ELSE LET data == call.product_hierarchy[call.find_unit]
                  seen == [call EXCEPT !.visited = @ \cup {call.find_unit},
                                       !.visits = Append(@, call.find_unit)]
              IN IF data.has_values
                 THEN [seen EXCEPT !.pc = "found", !.parent = call.find_unit]
                 ELSE IF data.big_unit # 0
                 THEN [seen EXCEPT !.find_unit = data.big_unit]
                 ELSE [seen EXCEPT !.pc = "found", !.parent = 0]
    /\ UNCHANGED <<inventory, salesdb, sess, started, updates, now>>

\* without parent data the provided values are returned, otherwise the
\* values calculate_child_values fills in
ReturnValues ==
    /\ call.op = "check_and_calculate_relation_values"
    /\ call.pc = "found"
    /\ LET row_data == call.product_hierarchy[call.unit]
           cumulative_relation ==
               calculate_cumulative_relation(call.hierarchy_path, call.unit)
       IN call' = [call EXCEPT
                     !.pc = "returned",
                     !.values =
                         IF call.parent = 0 THEN ProvidedValues(row_data)
                         ELSE calculate_child_values(row_data,
                                  call.product_hierarchy[call.parent],
                                  cumulative_relation)]
    /\ UNCHANGED <<inventory, salesdb, sess, started, updates, now>>

WalkNext ==
    \/ BeginPath
    \/ FollowParent
    \/ FindParent
    \/ ReturnValues

\* the call runs on without interruption until it returns
WalkSpec == WalkInit /\ [][WalkNext]_vars /\ WF_vars(WalkNext)

\* ---------------------------------------------- two terminals, one shop
\* make_sale running on two terminals against the same databases; each
\* terminal has entered its cart loop, and every read and every committed
\* transaction of one may fall between two of the other
Terminals == {1, 2}

ConcurrentLedgers ==
    UNION {[1..n -> {LedgerBatch(1, q, sh, 0) :
                        q \in QuantityInputs, sh \in ShippingCostInputs}] :
           n \in 1..MaxBatches}

ConcurrentInit ==
    /\ batches \in ConcurrentLedgers
    /\ products = [p \in Products |->
                      [present |-> TRUE,
                       stock_quantity |->
                           TotalQuantity(batches, ActiveBatches(batches, p))]]
    /\ prices = [p \in Products |-> PriceRow(150, 120, 5)]
    /\ sales = <<>>
    /\ sale_items = <<>>
    /\ allocations = <<>>
    /\ sess = [s \in Terminals |-> [IdleSession EXCEPT !.pc = "search"]]
    /\ started = Cardinality(Terminals)
    /\ updates = 0
    /\ now = 0
    /\ call = NoCall

ConcurrentNext ==
    \/ \E s \in Terminals, p \in Products : SearchProduct(s, p)
    \/ \E s \in Terminals, q \in SaleQuantityInputs, w \in BOOLEAN :
           EnterQuantity(s, q, w)
    \/ \E s \in Terminals : CancelSale(s)
    \/ \E s \in Terminals : RecordSale(s)
    \/ \E s \in Terminals : UpdateProductStock(s)
    \/ \E s \in Terminals : UpdateBatches(s)

ConcurrentSpec == ConcurrentInit /\ [][ConcurrentNext]_vars

\* ------------------------- update_stock_batches_after_sale, write by write
\* one call for a fresh selection, with the outcome of every UPDATE and of
\* the commit; the connection of an attempt sees its own uncommitted
\* writes, and the table changes when the commit succeeds
DeductPrices == {120, 150}

DeductLedgers ==
    UNION {[1..n -> {LedgerBatch(1, q, sh, 0) :
                        q \in QuantityInputs, sh \in ShippingCostInputs}] :
           n \in 1..MaxLedger}

\* (a connection that still holds what the abandoned connection wrote,
\* against which the rollback of a failed attempt is tested)
KeepUncommitted(committed, uncommitted) == uncommitted

\* sqlite3.connect with its default isolation level: the first write opens
\* a transaction and nothing is stored before the commit, so a new
\* connection reads the committed table, and a connection dropped without
\* a commit has its writes rolled back
get_db_connection(committed, uncommitted) == committed

DeductInit ==
    /\ batches \in DeductLedgers
    /\ products = [p \in Products |->
                      [present |-> TRUE,
                       stock_quantity |->
                           TotalQuantity(batches, ActiveBatches(batches, p))]]
    /\ prices = [p \in Products |-> PriceRow(150, 120, 5)]
    /\ sales = <<>>
    /\ sale_items = <<>>
    /\ allocations = <<>>
    /\ sess = [s \in Sessions |-> IdleSession]
    /\ started = 0
    /\ updates = 0
    /\ now = 0
    /\ \E quantity \in SaleQuantityInputs, price \in DeductPrices :
          /\ get_stock_batches_for_sale(batches, 1, quantity) # None
          /\ call = [op |-> "update_stock_batches_after_sale",
                     batches_to_update |->
                         get_stock_batches_for_sale(batches, 1, quantity),
                     sale_price_per_unit |-> price,
                     attempt |-> 0, pc |-> "connect", i |-> 1,
                     view |-> batches, commits |-> 0, result |-> "none"]

\* the except clauses: a locked database is tried again while attempts
\* remain, anything else returns None
AfterFailure(c, outcome) ==
    IF outcome = "locked" /\ c.attempt < max_retries("batches") - 1
    THEN [c EXCEPT !.attempt = @ + 1, !.pc = "connect"]
    ELSE [c EXCEPT !.pc = "returned", !.result = "None"]

\* an attempt begins: conn = get_db_connection(INVENTORY_DB)
DeductConnect ==
    /\ call.op = "update_stock_batches_after_sale"
    /\ call.pc = "connect"
    /\ call' = [call EXCEPT !.pc = "update", !.i = 1,
                            !.view = get_db_connection(batches, call.view)]
    /\ UNCHANGED <<inventory, salesdb, sess, started, updates, now>>

\* the UPDATE of the next batch of the selection, in the open transaction
DeductUpdate(outcome) ==
    /\ call.op = "update_stock_batches_after_sale"
    /\ call.pc = "update"
    /\ call.i <= Len(call.batches_to_update)
    /\ LET batch == call.batches_to_update[call.i]
           actual_margin_per_unit == call.sale_price_per_unit - batch.landed_cost
           batch_actual_profit == actual_margin_per_unit * batch.quantity_to_deduct
           new_quantity == batch.current_quantity - batch.quantity_to_deduct
           row == [call.view[batch.batch_id] EXCEPT
                     !.quantity = new_quantity,
                     !.is_active = new_quantity > 0,
                     !.actual_margin = actual_margin_per_unit,
                     !.total_actual_profit = @ + batch_actual_profit]
       IN call' = IF outcome = "ok"
                  THEN [call EXCEPT !.view = [@ EXCEPT ![batch.batch_id] = row],
                                    !.i = @ + 1]
                  ELSE AfterFailure(call, outcome)
    /\ UNCHANGED <<inventory, salesdb, sess, started, updates, now>>

\* conn.commit() after the loop, then the result is returned
DeductCommit(outcome) ==
    /\ call.op = "update_stock_batches_after_sale"
    /\ call.pc = "update"
    /\ call.i > Len(call.batches_to_update)
    /\ IF outcome = "ok"
       THEN /\ batches' = call.view
            /\ call' = [call EXCEPT !.pc = "returned", !.result = "profit",
                                    !.commits = @ + 1]
       ELSE /\ batches' = batches
            /\ call' = AfterFailure(call, outcome)
    /\ UNCHANGED <<products, prices, salesdb, sess, started, updates, now>>

DeductNext ==
    \/ DeductConnect
    \/ \E outcome \in Outcomes : DeductUpdate(outcome)
    \/ \E outcome \in Outcomes : DeductCommit(outcome)

DeductSpec == DeductInit /\ [][DeductNext]_vars

\* ------------------------------- make_sale from the confirmation onwards
\* the commit phase of one sale with its rows: steps 1-3 statement by
\* statement in the connection to the sales database, then steps 4 to 8,
\* every write with its outcome; call.debts and call.other_payments are the
\* tables of the debts and other-payments databases
SettlementTypes == {"CASH", "MPESA", "BANK", "DEBT", "OTHER"}
StepOutcomes == {"ok", "failed"}

\* the row search_products returned for the product
FoundProduct(product_id) ==
    [id |-> product_id,
     stock_quantity |-> products[product_id].stock_quantity,
     retail_price |-> prices[product_id].retail_price,
     wholesale_price |-> prices[product_id].wholesale_price,
     wholesale_threshold |-> prices[product_id].wholesale_threshold]

\* the cart entries the cart loop can append on the ledger
CartEntries ==
    {CartItem(FoundProduct(1), quantity, use_wholesale,
              get_stock_batches_for_sale(batches, 1, quantity)) :
        quantity \in {q \in SaleQuantityInputs :
                         /\ q <= products[1].stock_quantity
                         /\ get_stock_batches_for_sale(batches, 1, q) # None},
        use_wholesale \in BOOLEAN}

\* INSERT INTO other_payments: amount is declared NOT NULL without a
\* default, so a row without an amount is refused
other_payments_accepts(row) == row.amount # Empty

CommitInit ==
    /\ batches \in ConcurrentLedgers
    /\ products = [p \in Products |->
                      [present |-> TRUE,
                       stock_quantity |->
                           TotalQuantity(batches, ActiveBatches(batches, p))]]
    /\ prices = [p \in Products |-> PriceRow(150, 120, 5)]
    /\ sales = <<>>
    /\ sale_items = <<>>
    /\ allocations = <<>>
    /\ sess = [s \in Sessions |-> IdleSession]
    /\ started = 0
    /\ updates = 0
    /\ now = 0
    /\ \E payment_method \in SettlementTypes, n \in 1..MaxCart :
          \E cart \in [1..n -> CartEntries] :
             call = [op |-> "make_sale_commit", pc |-> "sale",
                     payment_method |-> payment_method, cart |-> cart,
                     sale_id |-> 0, k |-> 1,
                     view |-> [sales |-> sales, sale_items |-> sale_items,
                               allocations |-> allocations],
                     debts |-> <<>>, other_payments |-> <<>>,
                     failed_at |-> "", reported |-> ""]

\* except Exception: "Error creating sale record", return; the connection
\* is dropped without a commit
SaleRecordFailed(c) ==
    [c EXCEPT !.failed_at = c.pc, !.pc = "returned",
              !.reported = "Error creating sale record"]

\* step 1: INSERT INTO sales, the first statement on sales_conn; the
\* connection of get_db_connection stores nothing before its commit
InsertSale(outcome) ==
    /\ call.op = "make_sale_commit"
    /\ call.pc = "sale"
    /\ IF outcome = "ok"
       THEN LET view == [call.view EXCEPT !.sales =
                            Append(@, [total_price |-> CartTotal(call.cart)])]
            IN /\ call' = [call EXCEPT !.view = view, !.pc = "items", !.k = 1,
                                       !.sale_id = Len(view.sales)]
               /\ sales' = get_db_connection(sales, view.sales)
       ELSE /\ call' = SaleRecordFailed(call)
            /\ sales' = sales
    /\ UNCHANGED <<inventory, sale_items, allocations, sess, started, updates, now>>

\* step 2: INSERT INTO sale_items for the next cart entry
InsertSaleItem(outcome) ==
    /\ call.op = "make_sale_commit"
    /\ call.pc = "items"
    /\ IF outcome = "ok"
       THEN LET view == [call.view EXCEPT !.sale_items =
                            @ \o SaleItemRows(call.sale_id, <<call.cart[call.k]>>)]
            IN /\ call' = IF call.k < Len(call.cart)
                          THEN [call EXCEPT !.view = view, !.k = @ + 1]
                          ELSE [call EXCEPT !.view = view, !.pc = "table"]
               /\ sale_items' = get_db_connection(sale_items, view.sale_items)
       ELSE /\ call' = SaleRecordFailed(call)
            /\ sale_items' = sale_items
    /\ UNCHANGED <<inventory, sales, allocations, sess, started, updates, now>>

\* step 3 begins: ensure_sale_batch_allocations_table, which raises when it
\* returns False
EnsureAllocationsTable(outcome) ==
    /\ call.op = "make_sale_commit"
    /\ call.pc = "table"
    /\ call' = IF outcome = "ok"
               THEN [call EXCEPT !.pc = "allocations", !.k = 1]
               ELSE SaleRecordFailed(call)
    /\ UNCHANGED <<inventory, salesdb, sess, started, updates, now>>

\* step 3: INSERT INTO sale_batch_allocations for the next batch of the
\* cart's selections
InsertAllocation(outcome) ==
    /\ call.op = "make_sale_commit"
    /\ call.pc = "allocations"
    /\ LET rows == AllocationRows(call.sale_id, call.cart)
       IN IF outcome = "ok"
          THEN LET view == [call.view EXCEPT !.allocations = Append(@, rows[call.k])]
               IN /\ call' = IF call.k < Len(rows)
                             THEN [call EXCEPT !.view = view, !.k = @ + 1]
                             ELSE [call EXCEPT !.view = view, !.pc = "commit"]
                  /\ allocations' = get_db_connection(allocations, view.allocations)
          ELSE /\ call' = SaleRecordFailed(call)
               /\ allocations' = allocations
    /\ UNCHANGED <<inventory, sales, sale_items, sess, started, updates, now>>

\* sales_conn.commit()
CommitSaleRecord(outcome) ==
    /\ call.op = "make_sale_commit"
    /\ call.pc = "commit"
    /\ IF outcome = "ok"
       THEN /\ sales' = call.view.sales
            /\ sale_items' = call.view.sale_items
            /\ allocations' = call.view.allocations
            /\ call' = [call EXCEPT !.pc = "stock"]
       ELSE /\ UNCHANGED salesdb
            /\ call' = SaleRecordFailed(call)
    /\ UNCHANGED <<inventory, sess, started, updates, now>>

\* step 4 in its transaction; any exception: "Error updating inventory",
\* return
WriteProductStock(outcome) ==
    /\ call.op = "make_sale_commit"
    /\ call.pc = "stock"
    /\ IF outcome = "ok"
       THEN /\ products' = StockAfterSale(products, call.cart)
            /\ call' = [call EXCEPT !.pc = "batches", !.k = 1]
       ELSE /\ products' = products
            /\ call' = [call EXCEPT !.failed_at = "stock", !.pc = "returned",
                                    !.reported = "Error updating inventory"]
    /\ UNCHANGED <<prices, batches, salesdb, sess, started, updates, now>>

\* steps 5 and 6 for the next cart entry: when the deduction returns None
\* the loop goes on to the next entry; a failed finalization is a warning
DeductItemBatches(deducted, finalized) ==
    /\ call.op = "make_sale_commit"
    /\ call.pc = "batches"
    /\ LET item == call.cart[call.k]
           after == update_stock_batches_after_sale(batches, item.batches,
                                                    item.unit_price)
       IN batches' = IF deducted = "failed" THEN batches
                     ELSE IF finalized = "failed" THEN after
                     ELSE FinalizeDepleted(after, item.batches)
    /\ call' = IF call.k < Len(call.cart)
               THEN [call EXCEPT !.k = @ + 1]
               ELSE [call EXCEPT !.pc = "profit"]
    /\ UNCHANGED <<products, prices, salesdb, sess, started, updates, now>>

\* SALE COMPLETED SUCCESSFULLY
SaleCompleted(c) == [c EXCEPT !.pc = "completed", !.reported = "completed"]

\* step 7; a failure is a warning; step 8 has nothing to write unless the
\* sale is a debt or an other payment
WriteSaleProfit(outcome) ==
    /\ call.op = "make_sale_commit"
    /\ call.pc = "profit"
    /\ sale_items' = IF outcome = "ok"
                     THEN calculate_sale_profit(sale_items, batches, allocations,
                                                call.sale_id, call.cart)
                     ELSE sale_items
    /\ call' = IF call.payment_method \in {"DEBT", "OTHER"}
               THEN [call EXCEPT !.pc = "payment"]
               ELSE SaleCompleted(call)
    /\ UNCHANGED <<inventory, sales, allocations, sess, started, updates, now>>

\* step 8: the debt record or the other-payment record is inserted and
\* committed; any exception is a warning
WritePayment(outcome) ==
    /\ call.op = "make_sale_commit"
    /\ call.pc = "payment"
    /\ LET debt_data == [sale_id |-> call.sale_id,
                         amount_owed |-> CartTotal(call.cart)]
           other_payment_data == [sale_id |-> call.sale_id, amount |-> Empty]
       IN call' =
            IF call.payment_method = "DEBT" /\ outcome = "ok"
            THEN SaleCompleted([call EXCEPT !.debts = Append(@, debt_data)])
            ELSE IF /\ call.payment_method = "OTHER" /\ outcome = "ok"
                    /\ other_payments_accepts(other_payment_data)
            THEN SaleCompleted([call EXCEPT !.other_payments =
                                   Append(@, other_payment_data)])
            ELSE SaleCompleted(call)
    /\ UNCHANGED <<inventory, salesdb, sess, started, updates, now>>

CommitNext ==
    \/ \E outcome \in Outcomes : InsertSale(outcome)
    \/ \E outcome \in Outcomes : InsertSaleItem(outcome)
    \/ \E outcome \in StepOutcomes : EnsureAllocationsTable(outcome)
    \/ \E outcome \in Outcomes : InsertAllocation(outcome)
    \/ \E outcome \in Outcomes : CommitSaleRecord(outcome)
    \/ \E outcome \in StepOutcomes : WriteProductStock(outcome)
    \/ \E deducted \in StepOutcomes, finalized \in StepOutcomes :
           DeductItemBatches(deducted, finalized)
    \/ \E outcome \in StepOutcomes : WriteSaleProfit(outcome)
    \/ \E outcome \in StepOutcomes : WritePayment(outcome)

CommitSpec == CommitInit /\ [][CommitNext]_vars

\* ------------------------------------------------------------- pay_debt
\* one call of pay_debt from the amount prompt onwards, statement by
\* statement on conn_debts; call.debts and call.debt_payments are the
\* committed tables of the debts database, call.view what the connection
\* has written
MaxDebts == 3
Debtors == {1, 2}
DebtAmounts == {10, 25}
PaymentInputs == {-5, 0, 10, 30, 100}

\* the debts table after sales on credit: ids and created_at grow with the
\* order of insertion
DebtTables ==
    UNION {{[i \in 1..n |-> [id |-> i, debtor |-> debtor[i],
                             amount_owed |-> amount[i], created_at |-> i]] :
               debtor \in [1..n -> Debtors], amount \in [1..n -> DebtAmounts]} :
           n \in 1..MaxDebts}

RECURSIVE AmountOwed(_, _)
\* SELECT SUM(amount_owed) ... GROUP BY debtor_name, debtor_phone
AmountOwed(debts, debtor) ==
    IF debts = <<>> THEN 0
    ELSE (IF Head(debts).debtor = debtor THEN Head(debts).amount_owed ELSE 0)
         + AmountOwed(Tail(debts), debtor)

DebtorRow(row, debtor) == row.debtor = debtor

\* SELECT id, amount_owed FROM debts WHERE ... ORDER BY created_at: the
\* debtor's rows in an order in which created_at never goes down
DebtsOf(debts, debtor) ==
    LET rows == {debts[i] : i \in {j \in DOMAIN debts : DebtorRow(debts[j], debtor)}}
    IN {fetched \in [1..Cardinality(rows) -> rows] :
           /\ \A i, j \in DOMAIN fetched : i # j => fetched[i] # fetched[j]
           /\ \A i, j \in DOMAIN fetched :
                 i < j => fetched[i].created_at <= fetched[j].created_at}

\* (the whole remaining payment taken from the debt, against which the
\* split of a payment over the debts is tested)
RemainingPayment(remaining_payment, amount_owed) == remaining_payment

\* payment_for_debt of the distribution loop
payment_for_debt(remaining_payment, amount_owed) ==
    IF remaining_payment >= amount_owed THEN amount_owed ELSE remaining_payment

\* DELETE FROM debts WHERE id = ?
DeleteDebt(debts, id) == SelectSeq(debts, LAMBDA row : row.id # id)

\* UPDATE debts SET amount_owed = amount_owed - ? WHERE id = ?
ReduceDebt(debts, id, amount) ==
    [i \in DOMAIN debts |->
        IF debts[i].id = id
        THEN [debts[i] EXCEPT !.amount_owed = @ - amount]
        ELSE debts[i]]

PayDebtInit ==
    /\ products = [p \in Products |-> [present |-> FALSE, stock_quantity |-> 0]]
    /\ prices = [p \in Products |-> NoPrice]
    /\ batches = <<>>
    /\ sales = <<>>
    /\ sale_items = <<>>
    /\ allocations = <<>>
    /\ sess = [s \in Sessions |-> IdleSession]
    /\ started = 0
    /\ updates = 0
    /\ now = 0
    /\ \E debts \in DebtTables :
          \E selected_debtor \in {debts[i].debtor : i \in DOMAIN debts} :
             call = [op |-> "pay_debt", pc |-> "amount",
                     debts |-> debts, debt_payments |-> <<>>,
                     view |-> [debts |-> debts, debt_payments |-> <<>>],
                     selected_debtor |-> selected_debtor,
                     total_amount_owed |-> AmountOwed(debts, selected_debtor),
                     payment_amount |-> 0, fetched |-> <<>>, i |-> 1,
                     remaining_payment |-> 0, result |-> "none"]

\* the amount prompt: negative amounts and amounts above the total are
\* refused, 0 stands for the total
EnterPayment(input) ==
    /\ call.op = "pay_debt"
    /\ call.pc = "amount"
    /\ LET payment_amount == IF input = 0 THEN call.total_amount_owed ELSE input
       IN call' = IF input < 0 \/ payment_amount > call.total_amount_owed
                  THEN [call EXCEPT !.pc = "returned", !.result = "refused"]
                  ELSE [call EXCEPT !.pc = "fetch",
                                    !.payment_amount = payment_amount]
    /\ UNCHANGED <<inventory, salesdb, sess, started, updates, now>>

\* except sqlite3.Error: conn_debts.rollback(), the error is printed
PayDebtFailed(c) ==
    [c EXCEPT !.pc = "returned", !.result = "error",
              !.view = [debts |-> c.debts, debt_payments |-> c.debt_payments]]

\* the debtor's debts are fetched in created_at order
FetchDebts(outcome) ==
    /\ call.op = "pay_debt"
    /\ call.pc = "fetch"
    /\ IF outcome = "ok"
       THEN \E fetched \in DebtsOf(call.debts, call.selected_debtor) :
               call' = [call EXCEPT !.pc = "distribute", !.fetched = fetched,
                                    !.i = 1,
                                    !.remaining_payment = call.payment_amount]
       ELSE call' = PayDebtFailed(call)
    /\ UNCHANGED <<inventory, salesdb, sess, started, updates, now>>

\* one round of the distribution loop: the debt is deleted when the
\* remaining payment covers it and reduced otherwise
DistributePayment(outcome) ==
    /\ call.op = "pay_debt"
    /\ call.pc = "distribute"
    /\ IF call.i > Len(call.fetched) \/ call.remaining_payment <= 0
       THEN call' = [call EXCEPT !.pc = "record"]
       ELSE IF outcome # "ok" THEN call' = PayDebtFailed(call)
       ELSE LET debt == call.fetched[call.i]
                paid == payment_for_debt(call.remaining_payment, debt.amount_owed)
                written == IF call.remaining_payment >= debt.amount_owed
                           THEN DeleteDebt(call.view.debts, debt.id)
                           ELSE ReduceDebt(call.view.debts, debt.id, paid)
            IN call' = [call EXCEPT
                          !.view.debts = written,
                          !.debts = get_db_connection(call.debts, written),
                          !.remaining_payment = @ - paid,
                          !.i = @ + 1]
    /\ UNCHANGED <<inventory, salesdb, sess, started, updates, now>>

\* INSERT INTO debt_payments with the first fetched debt as reference
RecordPayment(outcome) ==
    /\ call.op = "pay_debt"
    /\ call.pc = "record"
    /\ IF call.payment_amount > 0 /\ call.fetched # <<>>
       THEN IF outcome = "ok"
            THEN LET written == Append(call.view.debt_payments,
                                       [debt_id |-> call.fetched[1].id,
                                        amount |-> call.payment_amount])
                 IN call' = [call EXCEPT
                               !.view.debt_payments = written,
                               !.debt_payments =
                                   get_db_connection(call.debt_payments, written),
                               !.pc = "commit"]
            ELSE call' = PayDebtFailed(call)
       ELSE call' = [call EXCEPT !.pc = "commit"]
    /\ UNCHANGED <<inventory, salesdb, sess, started, updates, now>>

\* conn_debts.commit()
CommitPayment(outcome) ==
    /\ call.op = "pay_debt"
    /\ call.pc = "commit"
    /\ call' = IF outcome = "ok"
               THEN [call EXCEPT !.debts = call.view.debts,
                                 !.debt_payments = call.view.debt_payments,
                                 !.pc = "returned", !.result = "processed"]
               ELSE PayDebtFailed(call)
    /\ UNCHANGED <<inventory, salesdb, sess, started, updates, now>>

PayDebtNext ==
    \/ \E input \in PaymentInputs : EnterPayment(input)
    \/ \E outcome \in Outcomes : FetchDebts(outcome)
    \/ \E outcome \in Outcomes : DistributePayment(outcome)
    \/ \E outcome \in Outcomes : RecordPayment(outcome)
    \/ \E outcome \in Outcomes : CommitPayment(outcome)

PayDebtSpec == PayDebtInit /\ [][PayDebtNext]_vars

\* ================================================================ claims
\* no make_sale is between its first commit and its last
NoSaleInFlight ==
    \A s \in Sessions : sess[s].pc \in {"idle", "search", "quantity"}

\* C1: for every product, in every state in which every started sale and
\* import has finished, the quantities of the product's active batches add
\* up to the product's stock_quantity.
C1_StockEqualsActiveBatches ==
    NoSaleInFlight =>
        \A p \in Products :
            products[p].present =>
                TotalQuantity(batches, ActiveBatches(batches, p))
                    = products[p].stock_quantity

\* batch i comes before batch j in (received_date, id)
Older(i, j) ==
    \/ batches[i].received_date < batches[j].received_date
    \/ batches[i].received_date = batches[j].received_date /\ i < j

SelectedIds(sel) == {sel[k].batch_id : k \in 1..Len(sel)}

\* every quantity the product's batches can cover, and one they cannot
Requests(p) == 1..(TotalQuantity(batches, ActiveBatches(batches, p)) + 1)

\* C2: for every stock ledger and every requested quantity that can be
\* covered, get_stock_batches_for_sale returns the batches in ascending
\* (received_date, id) order, takes every batch but the last one whole, and
\* leaves out no active batch with remaining quantity that is older than a
\* batch it takes from.
C2_FifoOrder ==
    \A p \in Products : \A q \in Requests(p) :
        LET sel == get_stock_batches_for_sale(batches, p, q)
        IN sel # None =>
             /\ SelectedQuantity(sel) = q
             /\ \A k \in 1..(Len(sel) - 1) :
                    /\ Older(sel[k].batch_id, sel[k + 1].batch_id)
                    /\ sel[k].quantity_to_deduct = batches[sel[k].batch_id].quantity
             /\ \A k \in 1..Len(sel) :
                    /\ sel[k].quantity_to_deduct > 0
                    /\ sel[k].quantity_to_deduct <= batches[sel[k].batch_id].quantity
             /\ \A i \in 1..Len(batches) :
                    (/\ batches[i].product_id = p
                     /\ batches[i].is_active
                     /\ batches[i].quantity > 0
                     /\ i \notin SelectedIds(sel))
                    => \A k \in 1..Len(sel) : Older(sel[k].batch_id, i)

\* a cart line whose selection spans two batches, the older of which has
\* the larger id, while a newer batch with stock is left out
C2_Witness ==
    \E s \in Sessions : \E n \in 1..Len(sess[s].cart) :
        LET sel == sess[s].cart[n].batches
        IN /\ Len(sel) = 2
           /\ sel[1].batch_id > sel[2].batch_id
           /\ sel[2].quantity_to_deduct < sel[2].current_quantity
           /\ \E i \in 1..Len(batches) :
                  /\ i \notin SelectedIds(sel)
                  /\ batches[i].is_active
                  /\ batches[i].quantity > 0

\* C3: a call of get_stock_batches_for_sale from the cart loop changes no
\* stored row, and when the product's active batches hold less than the
\* requested quantity it returns no selection at all: the cart stays as it
\* was and the shortage is reported.
C3_SelectionAllOrNothing ==
    [][\A s \in Sessions, q \in SaleQuantityInputs, w \in BOOLEAN :
          EnterQuantity(s, q, w) =>
              /\ batches' = batches
              /\ products' = products
              /\ prices' = prices
              /\ sales' = sales
              /\ sale_items' = sale_items
              /\ allocations' = allocations
              /\ (TotalQuantity(batches,
                      ActiveBatches(batches, sess[s].product.id)) < q
                  => /\ get_stock_batches_for_sale(batches,
                            sess[s].product.id, q) = None
                     /\ sess'[s].cart = sess[s].cart
                     /\ sess'[s].notice = "Insufficient stock across batches")
       ]_vars

\* the cart loop has just been refused a selection
C3_Witness ==
    \E s \in Sessions :
        /\ sess[s].pc = "search"
        /\ sess[s].notice = "Insufficient stock across batches"

\* a batch of the selection no longer holds the quantity the selection read
StaleSelection(item) ==
    \E k \in 1..Len(item.batches) :
        batches[item.batches[k].batch_id].quantity
            # item.batches[k].current_quantity

\* C4: when the quantity of a selected batch has changed between the
\* selection and the deduction, update_stock_batches_after_sale writes
\* nothing to the batches.
C4_StaleSelectionRefused ==
    [][\A s \in Sessions :
          (/\ sess[s].pc = "batches"
           /\ StaleSelection(sess[s].cart[sess[s].idx])
           /\ UpdateBatches(s))
          => batches' = batches]_vars

\* C5: a batch is active exactly when its quantity is greater than zero.
C5_ActiveIffPositive ==
    \A i \in 1..Len(batches) : batches[i].is_active <=> batches[i].quantity > 0

\* C6: no step raises the quantity of a batch that already exists.
C6_QuantityOnlyDecreases ==
    [][\A i \in 1..Len(batches) :
          batches'[i].quantity <= batches[i].quantity]_vars

\* the fields of a batch that finalization does not write
Frozen(b) == [b EXCEPT !.actual_margin = 0, !.total_actual_profit = 0]

\* C7: no step changes a field of an inactive batch other than
\* actual_margin and total_actual_profit.
C7_InactiveBatchFrozen ==
    [][\A i \in 1..Len(batches) :
          ~batches[i].is_active => Frozen(batches'[i]) = Frozen(batches[i])]_vars

\* SUM(quantity) over the allocation rows of a sale and product
RECURSIVE AllocatedQuantity(_, _, _)
AllocatedQuantity(allocs, sale_id, product_id) ==
    IF allocs = <<>> THEN 0
    ELSE (IF Head(allocs).sale_id = sale_id /\ Head(allocs).product_id = product_id
          THEN Head(allocs).quantity ELSE 0)
         + AllocatedQuantity(Tail(allocs), sale_id, product_id)

\* C8: for every sale line, the quantities of the allocation rows of the
\* line's sale and product add up to the line's quantity.
C8_AllocationsMatchLine ==
    \A k \in 1..Len(sale_items) :
        AllocatedQuantity(allocations, sale_items[k].sale_id,
                          sale_items[k].product_id) = sale_items[k].quantity

\* the profit a selection realizes at a price, from the batches' own costs
RECURSIVE RealizedProfit(_, _)
RealizedProfit(sel, price) ==
    IF sel = <<>> THEN 0
    ELSE LET b == batches[Head(sel).batch_id]
         IN (price - (b.buying_price + b.shipping_cost + b.handling_cost))
                * Head(sel).quantity_to_deduct
            + RealizedProfit(Tail(sel), price)

\* C9: update_stock_batches_after_sale applied to a selection that
\* get_stock_batches_for_sale has just produced sets, for every selected
\* batch, actual_margin to the sale price minus the batch's landed cost,
\* takes the selected quantity off the batch, deactivates the batch when
\* nothing is left, adds actual_margin times the selected quantity to
\* total_actual_profit, touches no other batch, and returns the sum of the
\* added profits.  With A (older, 5 units, landed cost 100) and B (newer,
\* 5 units, landed cost 110) a sale of 8 at 150 selects (A, 5), (B, 3),
\* leaves A inactive with actual_margin 50 and B active with 2 units, and
\* returns 370.
C9_DeductionEffect ==
    \A p \in Products : \A q \in Requests(p) : \A price \in {120, 150} :
        LET sel == get_stock_batches_for_sale(batches, p, q)
            after == update_stock_batches_after_sale(batches, sel, price)
        IN sel # None =>
             /\ Len(after) = Len(batches)
             /\ \A k \in 1..Len(sel) :
                    LET id == sel[k].batch_id
                        b == batches[id]
                        qty == sel[k].quantity_to_deduct
                        margin == price - (b.buying_price + b.shipping_cost
                                           + b.handling_cost)
                    IN /\ after[id].actual_margin = margin
                       /\ after[id].quantity = b.quantity - qty
                       /\ after[id].is_active = (b.quantity - qty > 0)
                       /\ after[id].total_actual_profit
                              = b.total_actual_profit + margin * qty
             /\ \A i \in 1..Len(batches) :
                    i \notin SelectedIds(sel) => after[i] = batches[i]
             /\ total_actual_profit(sel, price) = RealizedProfit(sel, price)
             /\ \A a, b \in 1..Len(batches) :
                    (/\ {i \in 1..Len(batches) :
                            batches[i].is_active /\ batches[i].quantity > 0} = {a, b}
                     /\ Older(a, b)
                     /\ batches[a].quantity = 5
                     /\ batches[a].buying_price + batches[a].shipping_cost
                            + batches[a].handling_cost = 100
                     /\ batches[b].quantity = 5
                     /\ batches[b].buying_price + batches[b].shipping_cost
                            + batches[b].handling_cost = 110
                     /\ q = 8 /\ price = 150)
                    => /\ Len(sel) = 2
                       /\ sel[1].batch_id = a /\ sel[1].quantity_to_deduct = 5
                       /\ sel[2].batch_id = b /\ sel[2].quantity_to_deduct = 3
                       /\ ~after[a].is_active /\ after[a].actual_margin = 50
                       /\ after[b].is_active /\ after[b].quantity = 2
                       /\ total_actual_profit(sel, price) = 370

\* the sale of 8 at 150 has been deducted from A and B
C9_Witness ==
    \E s \in Sessions : \E a, b \in 1..Len(batches) :
        /\ sess[s].pc = "idle"
        /\ sess[s].profit = 370
        /\ Len(sale_items) = 1
        /\ sale_items[1].quantity = 8 /\ sale_items[1].unit_price = 150
        /\ Older(a, b)
        /\ ~batches[a].is_active /\ batches[a].quantity = 0
        /\ batches[a].actual_margin = 50 /\ batches[a].total_actual_profit = 250
        /\ batches[b].is_active /\ batches[b].quantity = 2
        /\ batches[b].actual_margin = 40 /\ batches[b].total_actual_profit = 120

\* SUM(quantity) over the allocation rows that name a batch
RECURSIVE DeductedFromBatch(_, _)
DeductedFromBatch(allocs, batch_id) ==
    IF allocs = <<>> THEN 0
    ELSE (IF Head(allocs).batch_id = batch_id THEN Head(allocs).quantity ELSE 0)
         + DeductedFromBatch(Tail(allocs), batch_id)

\* the unit price of the sale line an allocation row belongs to
LinePrice(a) ==
    LET k == CHOOSE k \in 1..Len(sale_items) :
                 /\ sale_items[k].sale_id = a.sale_id
                 /\ sale_items[k].product_id = a.product_id
    IN sale_items[k].unit_price

\* the sum over the deductions from a batch of (sale price - landed cost)
\* times the deducted quantity
RECURSIVE ProfitFromBatch(_, _)
ProfitFromBatch(allocs, batch_id) ==
    IF allocs = <<>> THEN 0
    ELSE (IF Head(allocs).batch_id = batch_id
          THEN (LinePrice(Head(allocs)) - landed_cost(batches[batch_id]))
                   * Head(allocs).quantity
          ELSE 0)
         + ProfitFromBatch(Tail(allocs), batch_id)

\* C10: when the sales are finished and no stock update has been made, a
\* batch whose recorded deductions add up to its original quantity is
\* inactive and empty, and its total_actual_profit is the sum over those
\* deductions of (sale price - landed cost) times the deducted quantity.
C10_DepletionFinalization ==
    (NoSaleInFlight /\ updates = 0) =>
        \A i \in 1..Len(batches) :
            (/\ DeductedFromBatch(allocations, i) > 0
             /\ DeductedFromBatch(allocations, i) = batches[i].original_quantity)
            => /\ ~batches[i].is_active
               /\ batches[i].quantity = 0
               /\ batches[i].total_actual_profit
                      = ProfitFromBatch(allocations, i)

\* C11: for every retail price, wholesale price and landed cost, negative
\* margins included, calculate_expected_margin returns a result whose
\* expected_margin is (retail_price - landed_cost) * retail_ratio +
\* (wholesale_price - landed_cost) * wholesale_ratio for the ratios it
\* reports; with the ratios 0.7 / 0.3, retail 1500, wholesale 1200 and
\* landed cost 900 the margin is 510.
C11_ExpectedMarginFormula ==
    call.op = "calculate_expected_margin" =>
        \A k \in 1..Len(call.log) :
            LET args == call.log[k].args
                r == call.log[k].result
                a == r.ratios[1]
                b == r.ratios[2]
            IN /\ a >= 0 /\ b >= 0 /\ a + b > 0
               /\ r.expected_margin[2] > 0
               /\ r.expected_margin[1] * (a + b)
                      = r.expected_margin[2]
                          * ((args.retail_price - args.landed_cost) * a
                             + (args.wholesale_price - args.landed_cost) * b)
               /\ (/\ r.ratios = <<7, 3>>
                   /\ args.retail_price = 1500
                   /\ args.wholesale_price = 1200
                   /\ args.landed_cost = 900)
                  => r.expected_margin = <<510, 1>>

\* the call of the example has returned 510, and a call with a landed cost
\* above both prices has returned a negative margin
C11_Witness ==
    /\ call.op = "calculate_expected_margin"
    /\ \E k \in 1..Len(call.log) :
           /\ call.log[k].args.retail_price = 1500
           /\ call.log[k].args.landed_cost = 900
           /\ call.log[k].result.ratios = <<7, 3>>
           /\ call.log[k].result.expected_margin = <<510, 1>>
    /\ \E k \in 1..Len(call.log) :
           /\ call.log[k].args.landed_cost > call.log[k].args.retail_price
           /\ call.log[k].result.expected_margin[1] < 0

\* C12: the ratio pair behind a product's expected margin is the default
\* 0.7 / 0.3 when the product has no sold quantity, and the retail and
\* wholesale shares of its sold quantity otherwise.  Here: whenever a step
\* rewrites the expected margin of a batch whose product has sold units,
\* the margin written is the one weighted by those shares (over the batch's
\* landed cost or over its buying price, whichever the caller passes).
SoldTotal(product_id) ==
    SoldQuantity(sale_items, product_id, FALSE)
    + SoldQuantity(sale_items, product_id, TRUE)

C12_HistoricalRatiosUsed ==
    [][\A i \in 1..Len(batches) :
          (/\ i <= Len(batches')
           /\ batches'[i].expected_margin # batches[i].expected_margin
           /\ SoldTotal(batches[i].product_id) > 0)
          => \E cost \in {landed_cost(batches'[i]), batches'[i].buying_price} :
                batches'[i].expected_margin =
                    calculate_expected_margin(sale_items,
                        prices'[batches[i].product_id].retail_price,
                        prices'[batches[i].product_id].wholesale_price,
                        cost, batches[i].product_id)]_vars


\* the rows of the sheet that are a direct child of a hierarchy root which
\* supplies its quantity and its three costs, and that supply no quantity
\* and no cost themselves
IsResolving == call.op = "validate_and_import_data"

RootOf(k) == call.product_hierarchy[k].big_unit

ChildOfExplicitRoot(k) ==
    LET h == call.product_hierarchy
    IN /\ RootOf(k) \in DOMAIN h
       /\ h[RootOf(k)].big_unit = 0
       /\ h[RootOf(k)].stock_quantity # Empty
       /\ h[RootOf(k)].buying_price # Empty
       /\ h[RootOf(k)].shipping_cost # Empty
       /\ h[RootOf(k)].handling_cost # Empty
       /\ h[k].stock_quantity = Empty
       /\ h[k].buying_price = Empty
       /\ h[k].shipping_cost = Empty
       /\ h[k].handling_cost = Empty

\* c is n / d rounded to the nearest whole number, a tie to the even one
NearestTo(c, n, d) ==
    /\ 2 * Abs(c * d - n) <= d
    /\ 2 * Abs(c * d - n) = d => c % 2 = 0

C14_ExplicitFieldsKept ==
    IsResolving =>
        \A k \in 1..Len(call.log) :
            LET row == call.product_hierarchy[k]
                out == call.log[k].values
            IN /\ row.stock_quantity # Empty => out.stock_quantity = row.stock_quantity[1]
               /\ row.buying_price # Empty => out.buying_price = row.buying_price[1]
               /\ row.shipping_cost # Empty => out.shipping_cost = row.shipping_cost[1]
               /\ row.handling_cost # Empty => out.handling_cost = row.handling_cost[1]
               /\ row.low_stock_threshold # Empty =>
                      out.low_stock_threshold = row.low_stock_threshold[1]

\* a row of explicit zeros and threshold 2 under an ancestor that carries
\* 4 units at 100.00 and threshold 2 resolves to its own cells
C14_Witness ==
    /\ IsResolving
    /\ \E k \in 1..Len(call.log) :
          /\ call.log[k].is_child_unit
          /\ call.log[k].parent # k
          /\ call.log[k].cumulative_relation > 1
          /\ call.product_hierarchy[call.log[k].parent].stock_quantity = <<4>>
          /\ call.product_hierarchy[call.log[k].parent].low_stock_threshold = <<2>>
          /\ call.product_hierarchy[k].stock_quantity = <<0>>
          /\ call.product_hierarchy[k].low_stock_threshold = <<2>>
          /\ call.log[k].values.stock_quantity = 0
          /\ call.log[k].values.low_stock_threshold = 2

\* the product of the relations from unit k up to, and without, unit p
RECURSIVE RelationBetween(_, _)
RelationBetween(k, p) ==
    IF k = p \/ k \notin DOMAIN call.product_hierarchy THEN 1
    ELSE call.product_hierarchy[k].relation
         * RelationBetween(call.product_hierarchy[k].big_unit, p)

\* C20: in a hierarchy of any depth the cumulative relation behind a unit's
\* derived fields is the product of the relations on the path from the unit
\* to the ancestor that supplied the values, and of nothing else; so a
\* derived quantity is the supplier's quantity times that product.
C20_CumulativeRelationToSupplier ==
    IsResolving =>
        \A k \in 1..Len(call.log) :
            (call.log[k].is_child_unit
             /\ call.log[k].parent # k
             /\ call.product_hierarchy[k].stock_quantity = Empty) =>
                LET supplier == call.log[k].parent
                IN /\ call.log[k].cumulative_relation = RelationBetween(k, supplier)
                   /\ call.log[k].values.stock_quantity =
                          OrZero(call.product_hierarchy[supplier].stock_quantity)
                          * RelationBetween(k, supplier)

\* C15: an import row (or a batch creation) carrying a negative quantity
\* or a negative cost is rejected before any write; so no step of an import
\* leaves a batch row with a negative quantity or buying price, or a product
\* with negative stock.
C15_NegativeInputsRejected ==
    call.op = "import_rows" =>
        /\ \A i \in 1..Len(batches) :
               batches[i].quantity >= 0 /\ batches[i].buying_price >= 0
        /\ \A p \in Products : products[p].stock_quantity >= 0

\* the writes the spec's steps stand for: the sale with its lines and
\* allocations, the product stock, the batch deduction, the debt or other
\* payment
SagaSteps == {"sale", "stock", "batches", "payment"}

FailedWrite(w) == w.outcomes[Len(w.outcomes)] # "ok"

\* C16: a sale that started committing is reported as completed only if
\* every step succeeded; when a step fails the sale ends there: that step is
\* the last one to run and the sale is reported as failed.
C16_CommittedOnlyIfEveryStepSucceeded ==
    call.op = "make_sale" =>
        \A k \in 1..Len(call.writes) :
            (call.writes[k].step \in SagaSteps /\ FailedWrite(call.writes[k])) =>
                /\ k = Len(call.writes)
                /\ call.tries = <<>>
                /\ call.pc = "returned"
                /\ call.reported = "error"

\* C17: every write of a sale that meets a locked database is tried again,
\* 3 to 5 attempts in all before the failure is surfaced; a write that fails
\* with any other error is not tried again.
C17_LockedWritesRetried ==
    call.op = "make_sale" =>
        \A k \in 1..Len(call.writes) :
            LET o == call.writes[k].outcomes
            IN call.writes[k].step \in SagaSteps =>
                  /\ \A i \in 1..(Len(o) - 1) : o[i] = "locked"
                  /\ o[Len(o)] = "locked" => Len(o) \in 3..5

\* C18: every batch created, on any creation path, carries the expected
\* margin weighted by the retail and wholesale ratios (the product's, or the
\* default ones) for its retail price, wholesale price and landed cost, and
\* total_expected_profit = expected_margin * quantity.
C18_CreatedBatchMarginWeighted ==
    [][Len(batches') > Len(batches) =>
          LET b == batches'[Len(batches')]
              price == prices'[b.product_id]
          IN /\ \E product_id \in {b.product_id, 0} :
                    b.expected_margin =
                        calculate_expected_margin(sale_items, price.retail_price,
                            price.wholesale_price, landed_cost(b), product_id)
             /\ b.total_expected_profit = RatTimes(b.expected_margin, b.quantity)]_vars

\* C19: a batch's original_quantity is the quantity it was created with
\* and no later step changes it, be it a sale, a manual update, a
\* multi-unit update or an Excel import.
C19_OriginalQuantityFrozen ==
    [][/\ \A i \in 1..Len(batches) :
              /\ i <= Len(batches')
              /\ batches'[i].original_quantity = batches[i].original_quantity
       /\ \A i \in (Len(batches) + 1)..Len(batches') :
              batches'[i].original_quantity = batches'[i].quantity]_vars

\* the sheet row of a stored product names a parent among the sheet's units
HasParent(k) ==
    /\ call.sheet[k].big_unit \in 1..Len(call.sheet)
    /\ call.sheet[k].big_unit # k

\* C21: a row whose relation to its parent is zero or negative is rejected
\* by the input validation and not imported, and nothing replaces or repairs
\* such a relation; so every stored product with a parent has the positive
\* relation_to_parent that the operator supplied.
C21_NonPositiveRelationRejected ==
    IsResolving =>
        \A k \in 1..Len(call.stored) :
            HasParent(k) =>
                /\ call.sheet[k].relation_of_unity > 0
                /\ call.stored[k].relation_to_parent =
                       call.sheet[k].relation_of_unity
                /\ call.product_hierarchy[k].relation =
                       call.sheet[k].relation_of_unity

\* C22: for one product, the relative order in which the selection
\* considers any two of its batches is the same in every call as long as no
\* batch is created in between, whatever update, import or sale runs: a step
\* that creates no batch leaves the order of every two batches that are
\* eligible before and after it as it was.
C22_SelectionOrderStable ==
    [][Len(batches') = Len(batches) =>
          \A p \in Products :
              \A i, j \in Eligible(batches, p) \cap Eligible(batches', p) :
                  Before(batches, i, j) <=> Before(batches', i, j)]_vars

\* C23: no two stock batches ever share a batch identifier (batch_number),
\* whatever the creation paths and the creation times.
C23_BatchNumberUnique ==
    \A i, j \in 1..Len(batches) :
        i # j => batches[i].batch_number # batches[j].batch_number

IsWalking == call.op = "check_and_calculate_relation_values"

\* no unit occurs twice in a sequence of units
NoRepeat(units) ==
    \A i, j \in 1..Len(units) : i # j => units[i] # units[j]

\* the walks of a call so far: each starts at the unit, goes from a unit to
\* its BIG_UNIT and has no unit twice, and no unit before the last one of
\* the search has explicit values
C24_WalkGuarded ==
    IsWalking =>
        /\ NoRepeat([i \in 1..Len(call.hierarchy_path) |->
                         call.hierarchy_path[i].unit])
        /\ NoRepeat(call.visits)
        /\ \A i \in 1..Len(call.visits) :
               /\ i = 1 => call.visits[i] = call.unit
               /\ i > 1 => /\ call.visits[i] =
                                call.product_hierarchy[call.visits[i - 1]].big_unit
                            /\ ~call.product_hierarchy[call.visits[i - 1]].has_values

\* the call has returned: with the first unit of the chain that has
\* explicit values, or with none when the chain ended (or closed on
\* itself), and then every cell the row left empty is zero
C24_WalkResult ==
    (IsWalking /\ call.pc = "returned") =>
        LET last == call.visits[Len(call.visits)]
            row_data == call.product_hierarchy[call.unit]
        IN IF call.parent # 0
           THEN /\ call.parent = last
                /\ call.product_hierarchy[last].has_values
           ELSE /\ ~call.product_hierarchy[last].has_values
                /\ \/ call.product_hierarchy[last].big_unit = 0
                   \/ call.product_hierarchy[last].big_unit
                          \notin DOMAIN call.product_hierarchy
                   \/ \E i \in 1..Len(call.visits) :
                          call.visits[i] = call.product_hierarchy[last].big_unit
                /\ call.values = ProvidedValues(row_data)
                /\ row_data.stock_quantity = Empty => call.values.stock_quantity = 0
                /\ row_data.buying_price = Empty => call.values.buying_price = 0
                /\ row_data.shipping_cost = Empty => call.values.shipping_cost = 0
                /\ row_data.handling_cost = Empty => call.values.handling_cost = 0
                /\ row_data.low_stock_threshold = Empty =>
                       call.values.low_stock_threshold = 0

\* C24: for any hierarchy map, one with a cycle of parent references
\* included, resolving a unit terminates: the walk up the parent chain visits
\* each unit at most once and stops at the first unit with explicit values
\* or at the end of the chain, and then the unit's missing fields are left
\* at the defaults (zero).
C24_ResolveTerminates ==
    /\ [](C24_WalkGuarded /\ C24_WalkResult)
    /\ <>(call.pc = "returned")

\* a call has returned on a map whose parent references form a cycle of two
\* or more units without values: the search went round it once
C24_Witness ==
    /\ IsWalking
    /\ call.pc = "returned"
    /\ call.parent = 0
    /\ Len(call.visits) >= 2
    /\ call.product_hierarchy[call.visits[Len(call.visits)]].big_unit = call.unit

\* the quantity the batches of a product were created with
RECURSIVE CreatedQuantity(_, _)
CreatedQuantity(bs, S) ==
    IF S = {} THEN 0
    ELSE LET i == CHOOSE i \in S : TRUE
         IN bs[i].original_quantity + CreatedQuantity(bs, S \ {i})

\* C25: for any sequence of completed sales, a cart with the same product
\* in more than one item included, the allocation rows of a batch never add
\* up to more than the quantity the batch was created with, and the quantity
\* taken from the batch and from the product's stock_quantity is the
\* quantity recorded as sold.  (On a ledger that nothing but sales touches
\* original_quantity is the created quantity and the product's stock started
\* as the sum of its batches.)
C25_AllocationsWithinBatch ==
    /\ \A i \in 1..Len(batches) :
           DeductedFromBatch(allocations, i) <= batches[i].original_quantity
    /\ (NoSaleInFlight /\ sales # <<>>) =>
           /\ \A i \in 1..Len(batches) :
                  batches[i].original_quantity - batches[i].quantity
                      = DeductedFromBatch(allocations, i)
           /\ \A p \in Products :
                  CreatedQuantity(batches, ProductBatches(batches, p))
                      - products[p].stock_quantity = SoldTotal(p)

\* both terminals have reported their sale completed, each sale with a
\* single line
BothCompleted ==
    /\ DOMAIN sess = Terminals
    /\ \A s \in Terminals : sess[s].pc = "idle"
    /\ Len(sales) = 2
    /\ Len(sale_items) = 2
    /\ sale_items[1].sale_id # sale_items[2].sale_id

\* C26: if two sales of the same product run concurrently, in any
\* interleaving of their selection, stock-update and batch-deduction steps,
\* and both are reported completed, then the product's stock_quantity and
\* the total quantity of its batches have each gone down by the sum of the
\* two sold quantities.
C26_ConcurrentDeductionsKept ==
    BothCompleted =>
        \A p \in Products :
            /\ CreatedQuantity(batches, ProductBatches(batches, p))
                   - products[p].stock_quantity = SoldTotal(p)
            /\ CreatedQuantity(batches, ProductBatches(batches, p))
                   - TotalQuantity(batches, ProductBatches(batches, p))
                   = SoldTotal(p)

IsDeducting == call.op = "update_stock_batches_after_sale"

\* batch i is in the selection with entry k
SelectionEntries(i) ==
    {k \in 1..Len(call.batches_to_update) :
        call.batches_to_update[k].batch_id = i}

\* the step takes the selection's quantity from every batch of the
\* selection, adds the profit of that quantity to its total_actual_profit
\* and leaves every other batch alone
AppliesSelectionOnce ==
    /\ Len(batches') = Len(batches)
    /\ \A i \in 1..Len(batches) :
           IF SelectionEntries(i) = {} THEN batches'[i] = batches[i]
           ELSE LET batch == call.batches_to_update[CHOOSE k \in SelectionEntries(i) : TRUE]
                IN /\ batches'[i].quantity =
                          batches[i].quantity - batch.quantity_to_deduct
                   /\ batches'[i].total_actual_profit =
                          batches[i].total_actual_profit
                          + (call.sale_price_per_unit - landed_cost(batches[i]))
                                * batch.quantity_to_deduct

\* the table changes in one step only, the one in which the call returns
\* its result, and that step applies the whole selection once; a step in
\* which the call returns failure changes nothing
C27_DeductionStep ==
    IsDeducting =>
        /\ batches' # batches =>
               /\ call.pc # "returned"
               /\ call'.pc = "returned" /\ call'.result = "profit"
        /\ (call.pc # "returned" /\ call'.pc = "returned"
               /\ call'.result = "profit") => AppliesSelectionOnce
        /\ (call'.pc = "returned" /\ call'.result = "None") =>
               call'.commits = 0 /\ batches' = batches

\* C27: update_stock_batches_after_sale is all-or-nothing over the batches
\* of one selection, whatever the number of locked retries: when it returns
\* a result every batch of the selection has had its quantity reduced and its
\* total_actual_profit increased exactly once, and when it returns failure
\* no batch of the selection has been changed.
C27_DeductionAllOrNothing == [][C27_DeductionStep]_vars

\* a selection of two batches or more has been applied in a third or later
\* attempt, after attempts that met a locked database
C27_Witness ==
    /\ IsDeducting
    /\ call.pc = "returned"
    /\ call.result = "profit"
    /\ call.attempt >= 2
    /\ Len(call.batches_to_update) >= 2
    /\ call.commits = 1

IsCommitting == call.op = "make_sale_commit"

\* the sales database holds the whole record of the sale under sale_id
WholeSaleRecord(sale_id, cart) ==
    /\ sales[sale_id].total_price = CartTotal(cart)
    /\ Len(sale_items) = Len(cart)
    /\ \A i \in 1..Len(cart) :
          /\ sale_items[i].sale_id = sale_id
          /\ sale_items[i].quantity = cart[i].quantity
    /\ allocations = AllocationRows(sale_id, cart)

\* nothing of a sale is stored anywhere: no header, line or allocation, no
\* batch or product stock touched, no debt and no other payment
NothingWritten ==
    /\ sales = <<>> /\ sale_items = <<>> /\ allocations = <<>>
    /\ \A i \in DOMAIN batches :
          /\ batches[i].quantity = batches[i].original_quantity
          /\ batches[i].total_actual_profit = 0
    /\ products[1].stock_quantity = CreatedQuantity(batches, DOMAIN batches)
    /\ call.debts = <<>> /\ call.other_payments = <<>>

\* C28: the sale header, all its lines and all its batch allocations become
\* visible in the sales database together: in every state a stored sale has
\* every one of its lines and allocations stored, and after a failure
\* anywhere in steps 1-3 of make_sale none of them is stored and no
\* inventory, debt or other-payment write has been made.
C28_SaleRecordAtomic ==
    IsCommitting =>
        /\ sales # <<>> => WholeSaleRecord(1, call.cart)
        /\ sales = <<>> => sale_items = <<>> /\ allocations = <<>>
        /\ call.reported = "Error creating sale record" => NothingWritten

\* steps 1-3 fail at the commit or at an allocation row, after the header
\* and both lines of a two-line cart were inserted on the connection
C28_Witness ==
    /\ IsCommitting
    /\ call.reported = "Error creating sale record"
    /\ call.failed_at \in {"allocations", "commit"}
    /\ Len(call.cart) = 2
    /\ Len(call.view.sale_items) = 2
    /\ call.view.sales # <<>>
    /\ sales = <<>>

\* C29: whenever make_sale reports a sale as completed with settlement type
\* DEBT, a debt record referencing that sale with amount_owed equal to the
\* sale total exists in the debts database, and whenever it reports
\* completion with settlement type OTHER, an other-payment record
\* referencing that sale exists; for CASH, MPESA and BANK sales neither
\* table is written.
C29_SettlementRecorded ==
    (IsCommitting /\ call.reported = "completed") =>
        /\ call.payment_method = "DEBT" =>
              \E i \in DOMAIN call.debts :
                 /\ call.debts[i].sale_id = call.sale_id
                 /\ call.debts[i].amount_owed = CartTotal(call.cart)
        /\ call.payment_method = "OTHER" =>
              \E i \in DOMAIN call.other_payments :
                 call.other_payments[i].sale_id = call.sale_id
        /\ call.payment_method \in {"CASH", "MPESA", "BANK"} =>
              call.debts = <<>> /\ call.other_payments = <<>>

IsPaying == call.op = "pay_debt"

DebtIds(debts) == {debts[i].id : i \in DOMAIN debts}

DebtRows(debts) == {debts[i] : i \in DOMAIN debts}

\* the step from the committed tables before to the committed tables after
\* is one whole payment of the selected debtor
WholePayment(before, after, payments_before, payments_after) ==
    LET debtor == call.selected_debtor
        payment == call.payment_amount
    IN /\ 0 < payment
       /\ payment <= AmountOwed(before, debtor)
       /\ AmountOwed(after, debtor) = AmountOwed(before, debtor) - payment
       /\ \A row \in DebtRows(before) : row.debtor # debtor => row \in DebtRows(after)
       /\ DebtIds(after) \subseteq DebtIds(before)
       /\ \A row \in DebtRows(after) : row.amount_owed >= 0
       /\ \A older, newer \in DebtRows(before) :
             (/\ older.debtor = debtor /\ newer.debtor = debtor
              /\ older.created_at < newer.created_at
              /\ newer \notin DebtRows(after))
                 => older.id \notin DebtIds(after)
       /\ Len(payments_after) = Len(payments_before) + 1
       /\ payments_after[Len(payments_after)].amount = payment

C30_PaymentStep ==
    IsPaying =>
        /\ (call'.debts # call.debts \/ call'.debt_payments # call.debt_payments)
              => (call.result = "none" /\ call'.result = "processed")
        /\ (call.result = "none" /\ call'.result = "processed")
              => WholePayment(call.debts, call'.debts,
                              call.debt_payments, call'.debt_payments)
        /\ \A row \in DebtRows(call'.debts) : row.amount_owed >= 0

\* C30: for any debtor and any accepted payment p with 0 < p <= total owed,
\* pay_debt reduces the sum of the debtor's amount_owed by exactly p,
\* applies the payment to the debtor's debts in created_at order (an older
\* debt is fully cleared before a newer one is reduced), never leaves a debt
\* with negative amount_owed, and commits all of these changes together
\* with the payment record or none of them.
C30_PayDebtFifoAtomic == [][C30_PaymentStep]_vars

\* a processed payment that cleared the debtor's oldest debt and reduced a
\* newer one, another debtor's debt standing by
C30_Witness ==
    /\ IsPaying
    /\ call.result = "processed"
    /\ Len(call.fetched) >= 2
    /\ call.fetched[1].id \notin DebtIds(call.debts)
    /\ \E row \in DebtRows(call.debts) :
          /\ row.debtor = call.selected_debtor
          /\ row.amount_owed \notin DebtAmounts
    /\ \E row \in DebtRows(call.debts) : row.debtor # call.selected_debtor
    /\ Len(call.debt_payments) = 1
====
